---- MODULE Spec2Model ----
(***************************************************************************)
(* Verification model of the talk-submission backend:                      *)
(*   - the SQLite-backed sliding-window RateLimiter (backend/rate-limit.ts)*)
(*   - the autothread poll-and-dedupe engine (backend/autothread/*.ts)     *)
(*                                                                         *)
(* Every `await` of the source is a separate step, so that concurrent      *)
(* requests and overlapping runs interleave where the code can.            *)
(* The store is SQLite as the code assumes it: one write lock for the      *)
(* database, taken by BEGIN IMMEDIATE, and single statements that are      *)
(* atomic and enforce PRIMARY KEY constraints.                             *)
(***************************************************************************)
EXTENDS Integers, Sequences, FiniteSets, TLC

(***************************************************************************)
(* Bounds of the model                                                     *)
(***************************************************************************)
NumProcs == 2
NumKeys == 2
MaxCalls == 3
MaxCallsRetry == 2
MaxMaxRequests == 2
MaxWindowSeconds == 1
MaxWindowSecondsLong == 3
MaxTicks == 3
NumRuns == 2
NumChannels == 2
MaxMsgs == 2
MaxInvocations == 3
MaxTicksAT == 2
MaxMsgsCrash == 1
MaxMsgsGates == 1
MaxMsgsCooldown == 4
MaxMsgsCap == 4
MaxMsgsModes == 2
MaxMsgsErrors == 2
MaxMsgsConsole == 1
MaxMsgsBurst == 1
MaxMsgsFault == 2
MaxMsgsIdle == 4
MaxMsgsLoop == 2
MaxMsgsWrites == 2
MaxLogicalRequests == 2
MaxTicksRequest == 2
MaxRetryAfter == 2
MaxStringLen == 2
MaxTicksLoop == 4
MaxInvocationsLoop == 2
MaxPeriods == 1
\* AUTOTHREAD_LOG_RETENTION_DAYS as configured (the default, 30, in
\* milliseconds is beyond the integers of the model checker)
RetentionDays == 1

(***************************************************************************)
(* Program constants                                                       *)
(***************************************************************************)
MaxRetries == 3
InitialBackoffMs == 50
MsPerSecond == 1000
\* resolution of the model's clock: half a second
TickMs == MsPerSecond \div 2

\* autothread/logic.ts lines 22-25, 267, 270
CooldownWindowMs == 10 * 60 * 1000
MaxThreadsPerChannelPerWindow == 3
MaxPages == 3
PageLimit == 100
\* resolution of the clock while the autothread runs: half a cooldown window
TickATMs == CooldownWindowMs \div 2

Procs == 1..NumProcs
Keys == 1..NumKeys
\* dbLock is the set of holders of the write lock: empty, one request, or
\* another writer of the same database
OtherWriter == NumProcs + 1

VARIABLES
    clock,          \* Date.now(), epoch milliseconds
    rlConfig,       \* RateLimiterConfig chosen at construction
    rlStore,        \* table rate_limit_store: key -> row
    dbLock,         \* holder of the SQLite write lock
    initialized,    \* RateLimiter.initialized
    rl,             \* per request: position in check() and its locals
    rlHist,         \* history: the results check() has returned
    rlCalls,        \* history: number of check() calls started
    rlOverlap,      \* history: keys that have had two calls in flight at once
    rlLastRej       \* history: per key, the last rejection not yet followed by a call

VARIABLES
    dMsgs,          \* Discord: per channel, the messages posted (index = id)
    dThreads,       \* Discord: the threads started, by message
    atChannels,     \* table autothread_channels: channel -> row
    atProcessed,    \* table autothread_processed: set of rows
    atStats,        \* table autothread_stats: channel -> threads_created
    atRuns,         \* table autothread_runs: set of rows
    run,            \* per invocation slot: position in runAutothread and its locals
    atInv,          \* number of invocations started
    callLog,        \* history: startThreadFromMessage calls made
    claimLog,       \* history: tryClaimMessage calls made and their results
    crashed,        \* history: pairs whose claiming invocation died at the creation call
    stuck,          \* history: the crashed pairs whose claim is still stored
    console         \* history: the POST /run requests and how they were taken

VARIABLES
    req,            \* RealDiscordService.request: the logical request in flight
    reqHist,        \* history: the logical requests that have settled
    cmp             \* timingSafeEqual: the arguments of a call and what it returned

atVars == <<dMsgs, dThreads, atChannels, atProcessed, atStats, atRuns,
            run, atInv, callLog, claimLog, crashed, stuck, console>>

rlState == <<rlConfig, rlStore, dbLock, initialized, rl, rlHist, rlCalls,
             rlOverlap, rlLastRej>>

rlVars == <<clock, rlState>>

auxVars == <<req, reqHist, cmp>>

vars == <<rlVars, atVars, auxVars>>

(***************************************************************************)
(* Pure helpers                                                            *)
(***************************************************************************)
RECURSIVE SeqMin(_)
SeqMin(s) ==
    IF Len(s) = 1 THEN s[1]
    ELSE LET m == SeqMin(Tail(s)) IN IF s[1] < m THEN s[1] ELSE m

Max2(a, b) == IF a > b THEN a ELSE b

\* Math.ceil(ms / 1000)
CeilSeconds_floor(ms) == ms \div MsPerSecond
CeilSeconds(ms) == 0 - ((0 - ms) \div MsPerSecond)

\* The request_times column is TEXT.  A text is modelled by what JSON.parse
\* makes of it: an array of numbers, some other JSON value, or no JSON at all.
JsonStringify(times) == [kind |-> "array", items |-> times]
JsonOther == [kind |-> "other", items |-> <<>>]
JsonInvalid == [kind |-> "invalid", items |-> <<>>]

\* lines 128-150: JSON.parse + Array.isArray, falling back to []
ParseRequestTimes_kept(text) ==
    IF text.kind = "array" THEN text.items ELSE <<0>>
ParseRequestTimes(text) ==
    IF text.kind = "array" THEN text.items ELSE <<>>

NoRow == [present |-> FALSE, request_times |-> JsonInvalid, updated_at |-> 0]

\* line 153: requestTimes.filter((t) => t >= windowStart)
InWindow_off(t, windowStart) == t > windowStart + MsPerSecond
InWindow(t, windowStart) == t >= windowStart

FilterRecent(times, windowStart) ==
    SelectSeq(times, LAMBDA t : InWindow(t, windowStart))

\* line 156: recentRequests.length >= this.config.maxRequests
OverLimit_never(recent, maxRequests) == FALSE
OverLimit_off(recent, maxRequests) == Len(recent) > maxRequests
OverLimit(recent, maxRequests) == Len(recent) >= maxRequests

\* line 179: const updatedTimes = [...recentRequests, now]
UpdatedTimes_same(recent, now) == recent
UpdatedTimes(recent, now) == Append(recent, now)

\* lines 163-168: UPDATE ... SET updated_at = ? on denial, request_times kept
DeniedRow_recorded(row, now) ==
    [row EXCEPT !.request_times =
                    JsonStringify(Append(ParseRequestTimes(row.request_times), now)),
                !.updated_at = now]
DeniedRow_stale(row, now) == row
DeniedRow(row, now) == [row EXCEPT !.updated_at = now]

\* lines 130-150: the stored text is not a JSON array
Unparsable(row) == row.present /\ row.request_times.kind # "array"

\* lines 158-160, 174
RetryAfterSeconds(recent, windowMs, now) ==
    Max2(1, CeilSeconds(SeqMin(recent) + windowMs - now))

\* line 211-217: isSqliteBusyError
IsSqliteBusyError(err) == err = "SQLITE_BUSY"

\* line 87
BackoffMs(attempt) == InitialBackoffMs * (2 ^ attempt)

WindowMs == rlConfig.windowSeconds * MsPerSecond

IdleReq == [pc |-> "idle", id |-> 0, key |-> 0, now |-> 0,
            attempt |-> 0, pending |-> NoRow,
            result |-> "none", retry |-> 0, wakeAt |-> 0,
            probe |-> FALSE, racedWith |-> 0, sawCorrupt |-> FALSE]

\* line 77
WindowStart(now) == now - WindowMs

InFlight(p) == rl[p].pc # "idle"

(***************************************************************************)
(* Autothread: data, store statements and pure functions                   *)
(***************************************************************************)
Runs == 1..NumRuns
Channels == 1..NumChannels
\* A null id (no cursor, no thread id); message ids start at 1
NullId == 0

\* CURRENT_TIMESTAMP and toSqliteTimestamp (store.ts lines 11-14): both are
\* "YYYY-MM-DD HH:MM:SS" texts, i.e. the time cut to whole seconds, and such
\* texts compare as their seconds do.
ToSqliteTimestamp(ms) == ms \div MsPerSecond

\* A DiscordMessage as the gates see it: the author's bot flag and what the
\* four regular expressions and the length test say of its sanitized content.
Content(bot, short, command, emoji, link, mention) ==
    [bot |-> bot, tooShort |-> short, isCommand |-> command,
     isEmojiOnly |-> emoji, isLinkOnly |-> link, isMentionOnly |-> mention]

GoodContent == Content(FALSE, FALSE, FALSE, FALSE, FALSE, FALSE)

AllContents ==
    {Content(b, s, c, e, l, m) : b \in BOOLEAN, s \in BOOLEAN, c \in BOOLEAN,
                                 e \in BOOLEAN, l \in BOOLEAN, m \in BOOLEAN}

\* logic.ts lines 65-133: the seven gates, in the order they are pushed
Gates(msg, hasThread) ==
    << [name |-> "not_bot", passed |-> ~msg.bot],
       [name |-> "no_existing_thread", passed |-> ~hasThread],
       [name |-> "min_length", passed |-> ~msg.tooShort],
       [name |-> "not_command", passed |-> ~msg.isCommand],
       [name |-> "not_emoji_only", passed |-> ~msg.isEmojiOnly],
       [name |-> "not_link_only", passed |-> ~msg.isLinkOnly],
       [name |-> "not_mention_only", passed |-> ~msg.isMentionOnly] >>

\* logic.ts line 130: passed = gates.every((g) => g.passed)
GatesPassed_some(gates) == \E i \in 1..Len(gates) : gates[i].passed
GatesPassed(gates) == \A i \in 1..Len(gates) : gates[i].passed

EvaluateMessageGates(msg, hasThread) == GatesPassed(Gates(msg, hasThread))

\* discord.ts lines 204-229 with Discord's contract: the newest `limit`
\* messages of the channel with id < before (all ids when before is null),
\* newest first.
Descending(hi, n) ==
    [i \in 1..(IF hi < n THEN Max2(hi, 0) ELSE n) |-> hi + 1 - i]

GetMessages(count, before, limit) ==
    Descending(IF before = NullId THEN count ELSE before - 1, limit)

\* logic.ts line 283: allMessages.sort by id, oldest first
SortOldestFirst_asFetched(ids) == ids
SortOldestFirst(ids) == SortSeq(ids, LAMBDA a, b : a < b)

\* logic.ts lines 286-288
NewMessages(sortedIds, lastMessageId) ==
    IF lastMessageId # NullId
    THEN SelectSeq(sortedIds, LAMBDA id : id > lastMessageId)
    ELSE sortedIds

\* store.ts lines 151-161
GetLastMessageId(tbl, c) ==
    IF tbl[c].present THEN tbl[c].last_message_id ELSE NullId

\* store.ts lines 163-179: INSERT ... ON CONFLICT DO UPDATE, with
\* last_message_id = COALESCE(excluded.last_message_id, last_message_id)
Coalesce_overwrite(new, old) == new
Coalesce(new, old) == IF new # NullId THEN new ELSE old

UpdateChannelState(tbl, c, lastMessageId, now) ==
    [tbl EXCEPT ![c] =
        [present |-> TRUE,
         last_message_id |-> IF tbl[c].present
                             THEN Coalesce(lastMessageId, tbl[c].last_message_id)
                             ELSE lastMessageId,
         last_seen_at |-> ToSqliteTimestamp(now)]]

NoChannelRow == [present |-> FALSE, last_message_id |-> NullId, last_seen_at |-> 0]

\* store.ts lines 36-44: PRIMARY KEY (channel_id, message_id)
RowsOf(tbl, c, m) == {row \in tbl : row.channel_id = c /\ row.message_id = m}

UniqueViolation_never(tbl, c, m) == FALSE
UniqueViolation(tbl, c, m) == RowsOf(tbl, c, m) # {}

\* store.ts lines 198-202: INSERT INTO processed (channel_id, message_id, status)
InsertProcessed(tbl, c, m, status, now) ==
    tbl \cup {[channel_id |-> c, message_id |-> m, status |-> status,
               thread_id |-> NullId, error |-> FALSE,
               processed_at |-> ToSqliteTimestamp(now)]}

\* store.ts lines 215-228: UPDATE processed SET status, thread_id, error, processed_at
UpdateMessageStatus_noop(tbl, c, m, status, threadId, error, now) == tbl
UpdateMessageStatus_keeping(tbl, c, m, status, threadId, error, now) ==
    {IF row.channel_id = c /\ row.message_id = m
     THEN [row EXCEPT !.status = status,
                      !.thread_id = IF threadId # NullId THEN threadId ELSE @,
                      !.error = error \/ @,
                      !.processed_at = ToSqliteTimestamp(now)]
     ELSE row : row \in tbl}
UpdateMessageStatus(tbl, c, m, status, threadId, error, now) ==
    {IF row.channel_id = c /\ row.message_id = m
     THEN [row EXCEPT !.status = status, !.thread_id = threadId, !.error = error,
                      !.processed_at = ToSqliteTimestamp(now)]
     ELSE row : row \in tbl}

\* store.ts lines 242-258
IsChannelOnCooldown(tbl, c, now, windowMs, maxThreads) ==
    LET cutoff == ToSqliteTimestamp(now - windowMs)
        count == Cardinality({row \in tbl : /\ row.channel_id = c
                                            /\ row.status = "created"
                                            /\ row.processed_at > cutoff})
    IN count >= maxThreads

\* types.ts lines 29-48 and autothread-debug.http.ts lines 128-139: the
\* configuration of the cron job and the default one of the debug console
DefaultConfig ==
    [namespace |-> "prod",
     maxChannelsPerRun |-> 3, maxThreadsPerRun |-> 5, maxIterations |-> 11,
     pollIntervalMs |-> 5000, runDurationMs |-> 55000]
DebugDefaultConfig ==
    [namespace |-> "sandbox",
     maxChannelsPerRun |-> 1, maxThreadsPerRun |-> 2, maxIterations |-> 1,
     pollIntervalMs |-> 5000, runDurationMs |-> 10000]

\* autothread-debug.http.ts lines 128-139: the configuration of a run asked
\* for on the debug console with maxChannels and maxThreads in the body
Min2(a, b) == IF a < b THEN a ELSE b
ConsoleConfig(maxChannels, maxThreads) ==
    [DebugDefaultConfig EXCEPT !.maxChannelsPerRun = Min2(maxChannels, 3),
                               !.maxThreadsPerRun = Min2(maxThreads, 5)]

TerminalStatuses == {"created", "skipped", "error", "dry_run"}

\* The locals of runAutothread, pollAndProcessMessages and processChannel
IdleRun == [pc |-> "idle", inv |-> 0, mode |-> "plan", cfg |-> DefaultConfig,
            startTime |-> 0, iter |-> 0, tcRun |-> 0, errs |-> 0, wakeAt |-> 0,
            chs |-> <<>>, ch |-> 0, last |-> NullId, page |-> 0,
            before |-> NullId, fetched |-> <<>>, withThread |-> {},
            newq |-> <<>>, tc |-> 0, safe |-> NullId, thread |-> NullId,
            summaryWarned |-> FALSE]

\* The autothread engine before its first invocation, with no message posted
\* discord.ts line 60
MAX_RETRIES == 2

\* discord.ts lines 56-59: a logical request before its first fetch
IdleRequest == [pc |-> "idle", id |-> 0, retryCount |-> 0, attempts |-> 0,
                status |-> 0, since |-> 0, wakeAt |-> 0,
                indicated |-> [kind |-> "absent", value |-> 0]]

NoComparison == [a |-> <<>>, b |-> <<>>, done |-> FALSE, result |-> FALSE]

AuxQuiet == req = IdleRequest /\ reqHist = {} /\ cmp = NoComparison

AtQuiet ==
    /\ dMsgs = [c \in Channels |-> <<>>]
    /\ dThreads = {}
    /\ atChannels = [c \in Channels |-> NoChannelRow]
    /\ atProcessed = {}
    /\ atStats = [c \in Channels |-> 0]
    /\ atRuns = {}
    /\ run = [r \in Runs |-> IdleRun]
    /\ atInv = 0
    /\ callLog = {}
    /\ claimLog = {}
    /\ crashed = {}
    /\ stuck = {}
    /\ console = {}

\* The key the single-key specifications exercise
FirstKey == {k \in Keys : \A j \in Keys : k <= j}

OthersOn(p, k) == {q \in Procs \ {p} : InFlight(q) /\ rl[q].key = k}

StoredCount(k, windowStart) ==
    Len(FilterRecent(ParseRequestTimes(rlStore[k].request_times), windowStart))

\* The situation of two concurrent requests competing for the last slot:
\* request q has read the clock and not yet opened its transaction, request p
\* reads the clock now, each one's timestamp lies in the other's window and
\* both windows hold maxRequests - 1 stored timestamps.
LastSlotRace(p, q, k) ==
    /\ OthersOn(p, k) = {q}
    /\ rl[q].pc \in {"begin", "sleep"}
    /\ rl[q].racedWith = 0
    /\ rl[q].now >= WindowStart(clock)
    /\ StoredCount(k, WindowStart(clock)) = rlConfig.maxRequests - 1
    /\ StoredCount(k, WindowStart(rl[q].now)) = rlConfig.maxRequests - 1

(***************************************************************************)
(* RateLimiter.check, lines 73-108, and init, lines 48-66                  *)
(***************************************************************************)
\* The caller invokes check(key).  init() returns at once when the table is
\* known to exist (line 49); then `now` is read (line 76).
CheckStart(p, k) ==
    /\ rl[p].pc = "idle"
    /\ \A q \in Procs : q < p => InFlight(q)
    /\ rlCalls < MaxCalls
    /\ rlCalls' = rlCalls + 1
    /\ rlOverlap' = IF OthersOn(p, k) # {} THEN rlOverlap \cup {k} ELSE rlOverlap
    /\ rlLastRej' = [rlLastRej EXCEPT ![k] = [set |-> FALSE, t |-> 0, r |-> 0]]
    /\ LET isProbe == /\ rlLastRej[k].set
                      /\ clock = rlLastRej[k].t + rlLastRej[k].r * MsPerSecond
           racers == {q \in Procs \ {p} : initialized /\ LastSlotRace(p, q, k)}
           mine == IF racers = {} THEN 0 ELSE rl[CHOOSE q \in racers : TRUE].id
           me == [IdleReq EXCEPT !.pc = IF initialized THEN "begin" ELSE "init",
                                 !.id = rlCalls + 1,
                                 !.key = k,
                                 !.now = clock,
                                 !.probe = isProbe,
                                 !.racedWith = mine]
       IN rl' = [q \in Procs |->
                    IF q = p THEN me
                    ELSE IF q \in racers
                         THEN [rl[q] EXCEPT !.racedWith = rlCalls + 1, !.probe = FALSE]
                    ELSE IF q \in OthersOn(p, k)
                         THEN [rl[q] EXCEPT !.racedWith = 0, !.probe = FALSE]
                    ELSE rl[q]]
    /\ UNCHANGED <<clock, rlConfig, rlStore, dbLock, initialized, rlHist>>
    /\ UNCHANGED <<atVars, auxVars>>

\* rateLimitMiddleware, lines 243-258, the caller of check(): a denial is
\* answered 429 with Retry-After: String(retryAfterSeconds) and next() is not
\* called; an admission awaits next() once; a rejection of check() leaves the
\* middleware before either.
RateLimitMiddleware_passes(how, allowed, retry) ==
    [status |-> IF allowed THEN "downstream" ELSE "429",
     retryAfter |-> IF allowed THEN "" ELSE ToString(retry),
     nextCalls |-> IF how = "threw_busy" THEN 0 ELSE 1]
RateLimitMiddleware(how, allowed, retry) ==
    IF how = "threw_busy"
    THEN [status |-> "thrown", retryAfter |-> "", nextCalls |-> 0]
    ELSE IF ~allowed
    THEN [status |-> "429", retryAfter |-> ToString(retry), nextCalls |-> 0]
    ELSE [status |-> "downstream", retryAfter |-> "", nextCalls |-> 1]

\* check() hands its result to the middleware (or throws): history only.
Returned(p, how, allowed, retry) ==
    /\ rlHist' = rlHist \cup
          {[id |-> rl[p].id, key |-> rl[p].key, now |-> rl[p].now, how |-> how,
            allowed |-> allowed, retry |-> retry, attempt |-> rl[p].attempt,
            probe |-> rl[p].probe, racedWith |-> rl[p].racedWith,
            sawCorrupt |-> rl[p].sawCorrupt,
            response |-> RateLimitMiddleware(how, allowed, retry)]}
    /\ rlLastRej' =
          IF how = "committed" /\ ~allowed /\ OthersOn(p, rl[p].key) = {}
          THEN [rlLastRej EXCEPT ![rl[p].key] =
                    [set |-> TRUE, t |-> rl[p].now, r |-> retry]]
          ELSE rlLastRej
    /\ rl' = [rl EXCEPT ![p] = IdleReq]

\* init(), lines 51-61: PRAGMA busy_timeout and CREATE TABLE IF NOT EXISTS
\* succeed; `now` is read after init() has resolved (line 76).
InitTable(p) ==
    /\ rl[p].pc = "init"
    /\ initialized' = TRUE
    /\ rl' = [rl EXCEPT ![p].pc = "begin", ![p].now = clock]
    /\ UNCHANGED <<clock, rlConfig, rlStore, dbLock, rlHist, rlCalls, rlOverlap,
                   rlLastRej>>
    /\ UNCHANGED <<atVars, auxVars>>

\* init(), lines 62-65: a statement of init() fails because another connection
\* holds the database lock; init() rethrows and check() has no handler around
\* `await this.init()` (line 74), so check() rejects to its caller.
InitTableBusy(p) ==
    /\ rl[p].pc = "init"
    /\ dbLock # {}
    /\ Returned(p, "threw_busy", FALSE, 0)
    /\ UNCHANGED <<clock, rlConfig, rlStore, dbLock, initialized, rlCalls, rlOverlap>>
    /\ UNCHANGED <<atVars, auxVars>>

(***************************************************************************)
(* RateLimiter.checkWithTransaction, lines 113-206                         *)
(***************************************************************************)
\* line 120: BEGIN IMMEDIATE succeeds when no connection holds the write lock
LockFree_deferred(lock) == TRUE
LockFree(lock) == lock = {}

\* line 120: BEGIN IMMEDIATE takes the write lock
BeginImmediate(p) ==
    /\ rl[p].pc = "begin"
    /\ LockFree(dbLock)
    /\ dbLock' = {p}
    /\ rl' = [rl EXCEPT ![p].pc = "select"]
    /\ UNCHANGED <<clock, rlConfig, rlStore, initialized, rlHist, rlCalls,
                   rlOverlap, rlLastRej>>
    /\ UNCHANGED <<atVars, auxVars>>

\* line 86: isBusy && attempt < this.config.maxRetries
RetriesLeft_always(attempt) == TRUE
RetriesLeft(attempt) == attempt < MaxRetries

\* lines 83-102: what check() does with an error thrown by the transaction
OnTransactionError(p, err) ==
    IF IsSqliteBusyError(err) /\ RetriesLeft(rl[p].attempt)
    THEN /\ rl' = [rl EXCEPT ![p].pc = "sleep",
                             ![p].wakeAt = clock + BackoffMs(rl[p].attempt)]
         /\ UNCHANGED <<rlHist, rlLastRej>>
    ELSE Returned(p, "failopen", TRUE, 0)

\* line 120 fails: the lock is held by another connection past busy_timeout.
\* The catch block's ROLLBACK has nothing to roll back (lines 197-205).
BeginBusy(p) ==
    /\ rl[p].pc = "begin"
    /\ dbLock # {}
    /\ OnTransactionError(p, "SQLITE_BUSY")
    /\ UNCHANGED <<clock, rlConfig, rlStore, dbLock, initialized, rlCalls, rlOverlap>>
    /\ UNCHANGED <<atVars, auxVars>>

\* lines 91-93: sleep(backoffMs); attempt++; continue
Sleep(p) ==
    /\ rl[p].pc = "sleep"
    /\ clock >= rl[p].wakeAt
    /\ rl' = [rl EXCEPT ![p].pc = "begin", ![p].attempt = rl[p].attempt + 1,
                        ![p].wakeAt = 0]
    /\ UNCHANGED <<clock, rlConfig, rlStore, dbLock, initialized, rlHist, rlCalls,
                   rlOverlap, rlLastRej>>
    /\ UNCHANGED <<atVars, auxVars>>

\* lines 123-192: SELECT, parse, filter, decide, and the UPDATE or INSERT,
\* whose effect stays private to the transaction until COMMIT.
SelectAndWrite(p) ==
    /\ rl[p].pc = "select"
    /\ LET row == rlStore[rl[p].key]
           requestTimes == IF row.present THEN ParseRequestTimes(row.request_times)
                           ELSE <<>>
           recent == FilterRecent(requestTimes, WindowStart(rl[p].now))
       IN IF OverLimit(recent, rlConfig.maxRequests)
          THEN rl' = [rl EXCEPT
                   ![p].pc = "commit",
                   ![p].result = "denied",
                   ![p].retry = RetryAfterSeconds(recent, WindowMs, rl[p].now),
                   ![p].sawCorrupt = Unparsable(row),
                   ![p].pending = IF row.present
                                  THEN DeniedRow(row, rl[p].now)
                                  ELSE row]
          ELSE rl' = [rl EXCEPT
                   ![p].pc = "commit",
                   ![p].result = "allowed",
                   ![p].sawCorrupt = Unparsable(row),
                   ![p].pending = [present |-> TRUE,
                                   request_times |->
                                       JsonStringify(UpdatedTimes(recent, rl[p].now)),
                                   updated_at |-> rl[p].now]]
    /\ UNCHANGED <<clock, rlConfig, rlStore, dbLock, initialized, rlHist, rlCalls,
                   rlOverlap, rlLastRej>>
    /\ UNCHANGED <<atVars, auxVars>>

\* lines 170-175 and 194-196: COMMIT publishes the write and releases the lock
Commit(p) ==
    /\ rl[p].pc = "commit"
    /\ rlStore' = [rlStore EXCEPT ![rl[p].key] = rl[p].pending]
    /\ dbLock' = {}
    /\ Returned(p, "committed", rl[p].result = "allowed", rl[p].retry)
    /\ UNCHANGED <<clock, rlConfig, initialized, rlCalls, rlOverlap>>
    /\ UNCHANGED <<atVars, auxVars>>

\* lines 197-205: a statement inside the transaction fails (not contention:
\* the write lock is already held); ROLLBACK drops the private write and the
\* error reaches check(), which fails open.
TransactionError(p) ==
    /\ rl[p].pc \in {"select", "commit"}
    /\ dbLock' = {}
    /\ OnTransactionError(p, "SQLITE_ERROR")
    /\ UNCHANGED <<clock, rlConfig, rlStore, initialized, rlCalls, rlOverlap>>
    /\ UNCHANGED <<atVars, auxVars>>

(***************************************************************************)
(* Environment of the limiter                                              *)
(***************************************************************************)
\* Another writer of the same database (the autothread store, the retention
\* cron, the submissions table) takes and releases the write lock.
OtherWriterLocks ==
    /\ dbLock = {}
    /\ dbLock' = {OtherWriter}
    /\ UNCHANGED <<clock, rlConfig, rlStore, initialized, rl, rlHist, rlCalls,
                   rlOverlap, rlLastRej>>
    /\ UNCHANGED <<atVars, auxVars>>

OtherWriterUnlocks ==
    /\ dbLock = {OtherWriter}
    /\ dbLock' = {}
    /\ UNCHANGED <<clock, rlConfig, rlStore, initialized, rl, rlHist, rlCalls,
                   rlOverlap, rlLastRej>>
    /\ UNCHANGED <<atVars, auxVars>>

TickRL ==
    /\ clock < MaxTicks * TickMs
    /\ clock' = clock + TickMs
    /\ UNCHANGED <<rlConfig, rlStore, dbLock, initialized, rl, rlHist, rlCalls,
                   rlOverlap, rlLastRej>>
    /\ UNCHANGED <<atVars, auxVars>>

InitRL ==
    /\ clock = 0
    /\ rlConfig \in [maxRequests : 1..MaxMaxRequests,
                     windowSeconds : 1..MaxWindowSeconds]
    /\ rlStore = [k \in Keys |-> NoRow]
    /\ dbLock = {}
    /\ initialized = FALSE
    /\ rl = [p \in Procs |-> IdleReq]
    /\ rlHist = {}
    /\ rlCalls = 0
    /\ rlOverlap = {}
    /\ rlLastRej = [k \in Keys |-> [set |-> FALSE, t |-> 0, r |-> 0]]
    /\ AtQuiet
    /\ AuxQuiet

NextRL ==
    \/ \E p \in Procs, k \in FirstKey : CheckStart(p, k)
    \/ \E p \in Procs : InitTable(p)
    \/ \E p \in Procs : InitTableBusy(p)
    \/ \E p \in Procs : BeginImmediate(p)
    \/ \E p \in Procs : BeginBusy(p)
    \/ \E p \in Procs : Sleep(p)
    \/ \E p \in Procs : SelectAndWrite(p)
    \/ \E p \in Procs : Commit(p)
    \/ \E p \in Procs : TransactionError(p)
    \/ OtherWriterLocks
    \/ OtherWriterUnlocks
    \/ TickRL

SpecRL == InitRL /\ [][NextRL]_vars

\* The steps of the call in slot p: each await of check() resolves or rejects
StepRL(p) ==
    \/ InitTable(p)
    \/ BeginImmediate(p)
    \/ BeginBusy(p)
    \/ Sleep(p)
    \/ SelectAndWrite(p)
    \/ Commit(p)

\* A limiter of one request per window, with windows of several seconds
InitWindow ==
    /\ clock = 0
    /\ rlConfig \in [maxRequests : {1}, windowSeconds : 1..MaxWindowSecondsLong]
    /\ rlStore = [k \in Keys |-> NoRow]
    /\ dbLock = {}
    /\ initialized = FALSE
    /\ rl = [p \in Procs |-> IdleReq]
    /\ rlHist = {}
    /\ rlCalls = 0
    /\ rlOverlap = {}
    /\ rlLastRej = [k \in Keys |-> [set |-> FALSE, t |-> 0, r |-> 0]]
    /\ AtQuiet
    /\ AuxQuiet

NextWindow ==
    \/ \E p \in Procs, k \in FirstKey : CheckStart(p, k)
    \/ \E p \in Procs : StepRL(p)
    \/ TickRL

SpecWindow == InitWindow /\ [][NextWindow]_vars

\* Time passes: within the horizon of the model, and beyond it for as long as
\* a timer of sleep() (lines 222-224) is pending
TickRetry ==
    /\ \/ clock < MaxTicks * TickMs
       \/ \E p \in Procs : rl[p].pc = "sleep" /\ clock < rl[p].wakeAt
    /\ clock' = clock + TickMs
    /\ UNCHANGED <<rlConfig, rlStore, dbLock, initialized, rl, rlHist, rlCalls,
                   rlOverlap, rlLastRej>>
    /\ UNCHANGED <<atVars, auxVars>>

\* Calls of one key under contention for the write lock, with the event loop
\* running every pending continuation and the clock advancing
NextRetry ==
    \/ rlCalls < MaxCallsRetry /\ \E p \in Procs, k \in FirstKey : CheckStart(p, k)
    \/ \E p \in Procs : StepRL(p)
    \/ OtherWriterLocks
    \/ OtherWriterUnlocks
    \/ TickRetry

FairRetry == WF_vars(TickRetry) /\ \A p \in Procs : WF_vars(StepRL(p))

SpecRetry == InitRL /\ [][NextRetry]_vars /\ FairRetry

\* Calls for several keys on one database: the only contention a call meets
\* is the write lock held by calls for other keys or for its own.
NextKeys ==
    \/ \E p \in Procs, k \in Keys : CheckStart(p, k)
    \/ \E p \in Procs : InitTable(p)
    \/ \E p \in Procs : InitTableBusy(p)
    \/ \E p \in Procs : BeginImmediate(p)
    \/ \E p \in Procs : BeginBusy(p)
    \/ \E p \in Procs : Sleep(p)
    \/ \E p \in Procs : SelectAndWrite(p)
    \/ \E p \in Procs : Commit(p)
    \/ TickRL

SpecKeys == InitRL /\ [][NextKeys]_vars

\* request_times is a TEXT column any writer of the database can set: a row
\* whose text is not a JSON array (lines 137-149 exist for this case).
CorruptRow(k) ==
    /\ dbLock = {}
    /\ ~Unparsable(rlStore[k])
    /\ \E text \in {JsonOther, JsonInvalid} :
          rlStore' = [rlStore EXCEPT ![k] = [present |-> TRUE,
                                             request_times |-> text,
                                             updated_at |-> clock]]
    /\ UNCHANGED <<clock, rlConfig, dbLock, initialized, rl, rlHist, rlCalls,
                   rlOverlap, rlLastRej>>
    /\ UNCHANGED <<atVars, auxVars>>

NextCorrupt ==
    \/ \E p \in Procs, k \in FirstKey : CheckStart(p, k)
    \/ \E p \in Procs : InitTable(p)
    \/ \E p \in Procs : BeginImmediate(p)
    \/ \E p \in Procs : BeginBusy(p)
    \/ \E p \in Procs : Sleep(p)
    \/ \E p \in Procs : SelectAndWrite(p)
    \/ \E p \in Procs : Commit(p)
    \/ \E p \in Procs : TransactionError(p)
    \/ \E k \in FirstKey : CorruptRow(k)
    \/ TickRL

SpecCorrupt == InitRL /\ [][NextCorrupt]_vars

(***************************************************************************)
(* Autothread: runAutothread, pollAndProcessMessages and processChannel    *)
(* Every await of the code is one step of an invocation; the synchronous   *)
(* code that follows an await up to the next one belongs to the same step. *)
(***************************************************************************)
Range(seq) == {seq[i] : i \in 1..Len(seq)}

HasThread(c, m) == \E th \in dThreads : th.ch = c /\ th.msg = m

\* A thread as Discord holds it: the message it hangs on, when and by whom it
\* was started, and whether the engine has posted a summary in it
NewThread(c, m, by) ==
    [ch |-> c, msg |-> m, at |-> clock, by |-> by, summary |-> FALSE]

CallsFor(c, m) == {call \in callLog : call.ch = c /\ call.msg = m}

\* discord.ts startThreadFromMessage, as the history sees it: who called for
\* which message, whether the message had a thread by then, and how the call
\* ended ("ok", "exists" for error 160004, "failed" for another error, "lost"
\* when nobody was left to hear)
LogCall(rr, m, res) ==
    callLog \cup {[ch |-> rr.ch, msg |-> m, inv |-> rr.inv, res |-> res,
                   had |-> HasThread(rr.ch, m),
                   n |-> Cardinality(CallsFor(rr.ch, m)) + 1]}

Elapsed(rr) == clock - rr.startTime

\* store.ts lines 381-386: the head of the polling loop
LoopHead_uncapped(rr) ==
    IF Elapsed(rr) < rr.cfg.runDurationMs
    THEN [rr EXCEPT !.iter = @ + 1, !.pc = "poll"]
    ELSE [rr EXCEPT !.pc = "end"]
LoopHead(rr) ==
    IF Elapsed(rr) < rr.cfg.runDurationMs /\ rr.iter < rr.cfg.maxIterations
    THEN [rr EXCEPT !.iter = @ + 1, !.pc = "poll"]
    ELSE [rr EXCEPT !.pc = "end"]

\* store.ts lines 400-409: after a poll, stop at the thread cap, else wait
AfterPoll(rr) ==
    IF rr.tcRun >= rr.cfg.maxThreadsPerRun
    THEN [rr EXCEPT !.pc = "end"]
    ELSE IF rr.cfg.maxIterations > 1 /\ Elapsed(rr) < rr.cfg.runDurationMs
    THEN [rr EXCEPT !.pc = "sleep", !.wakeAt = clock + rr.cfg.pollIntervalMs]
    ELSE LoopHead(rr)

\* logic.ts lines 591-594: the head of the loop over the channels
NextChannel(rr) ==
    IF rr.chs = <<>> \/ rr.tcRun >= rr.cfg.maxThreadsPerRun
    THEN AfterPoll([rr EXCEPT !.chs = <<>>])
    ELSE [rr EXCEPT !.pc = "getLast", !.ch = Head(rr.chs), !.chs = Tail(rr.chs)]

\* logic.ts lines 597-605: processChannel has returned threadsCreated
ChannelDone(rr) ==
    NextChannel([rr EXCEPT !.tcRun = @ + rr.tc, !.tc = 0, !.ch = 0,
                           !.last = NullId, !.page = 0, !.before = NullId,
                           !.fetched = <<>>, !.withThread = {}, !.newq = <<>>,
                           !.safe = NullId, !.thread = NullId])

\* logic.ts lines 606-615: processChannel has thrown; the catch of the loop
\* over the channels counts one error, and the threads the aborted pass had
\* created are not added to threadsCreatedThisRun
ChannelFailed(rr) ==
    NextChannel([rr EXCEPT !.errs = @ + 1, !.tc = 0, !.ch = 0,
                           !.last = NullId, !.page = 0, !.before = NullId,
                           !.fetched = <<>>, !.withThread = {}, !.newq = <<>>,
                           !.safe = NullId, !.thread = NullId,
                           !.summaryWarned = FALSE])

\* logic.ts lines 515-525: after the loop over the messages; newq holds the
\* messages the loop has left when it broke at the thread cap
AfterMessages_newest(rr) ==
    IF rr.mode # "plan" /\ rr.safe # NullId
    THEN [rr EXCEPT !.pc = "cursor", !.withThread = {},
                    !.safe = IF rr.newq = <<>> THEN @ ELSE rr.newq[Len(rr.newq)]]
    ELSE ChannelDone(rr)
AfterMessages(rr) ==
    IF rr.mode # "plan" /\ rr.safe # NullId
    THEN [rr EXCEPT !.pc = "cursor", !.withThread = {}]
    ELSE ChannelDone(rr)

\* logic.ts line 338, on the message as it was fetched
GatesPassOn(rr, m) == EvaluateMessageGates(dMsgs[rr.ch][m], m \in rr.withThread)

\* logic.ts lines 332-390: the head of the loop over the new messages; in
\* plan mode the whole body is synchronous
RECURSIVE NextMessage(_)
NextMessage(rr) ==
    IF rr.newq = <<>> THEN AfterMessages(rr)
    ELSE IF rr.tcRun + rr.tc >= rr.cfg.maxThreadsPerRun THEN AfterMessages(rr)
    ELSE IF rr.mode = "plan"
    THEN NextMessage([rr EXCEPT !.newq = Tail(@),
                                !.tc = IF GatesPassOn(rr, Head(rr.newq))
                                       THEN @ + 1 ELSE @])
    ELSE [rr EXCEPT !.pc = "claim"]

\* logic.ts lines 282-303: sort, filter, and the case of nothing new
Scanned(rr) ==
    LET new == NewMessages(SortOldestFirst(rr.fetched), rr.last)
    IN  IF new = <<>>
        THEN IF rr.mode # "plan" THEN [rr EXCEPT !.pc = "touch", !.fetched = <<>>,
                                                 !.withThread = {}]
             ELSE ChannelDone(rr)
        ELSE [rr EXCEPT !.pc = "cooldown", !.newq = new, !.fetched = <<>>,
                        !.page = 0, !.before = NullId,
                        !.withThread = @ \cap Range(new)]

\* logic.ts line 572, over the channels whose topic carries the tag
TaggedChannels == [i \in 1..NumChannels |-> i]
Slice(seq, n) == SubSeq(seq, 1, IF n < Len(seq) THEN n ELSE Len(seq))

\* store.ts lines 192-213: the insert and what tryClaimMessage returns
TryClaimMessage_replace(tbl, c, m, status, now) ==
    IF UniqueViolation(tbl, c, m)
    THEN [claimed |-> FALSE,
          tbl |-> InsertProcessed(tbl \ RowsOf(tbl, c, m), c, m, status, now)]
    ELSE [claimed |-> TRUE, tbl |-> InsertProcessed(tbl, c, m, status, now)]
TryClaimMessage(tbl, c, m, status, now) ==
    IF UniqueViolation(tbl, c, m)
    THEN [claimed |-> FALSE, tbl |-> tbl]
    ELSE [claimed |-> TRUE, tbl |-> InsertProcessed(tbl, c, m, status, now)]

\* store.ts lines 355-386: initTables, startRun, first pass of the loop head.
\* cfg is DEFAULT_CONFIG for the cron and the debug defaults for the console.
\* The slots of run are interchangeable: an invocation takes the lowest free one.
StartInvocation(r, mode, cfg) ==
    /\ run[r].pc = "idle"
    /\ \A q \in Runs : q < r => run[q].pc # "idle"
    /\ atInv < MaxInvocations
    /\ atInv' = atInv + 1
    /\ atRuns' = atRuns \cup {[id |-> atInv + 1, mode |-> mode, status |-> "running",
                               iterations |-> 0, threads_created |-> 0,
                               error_count |-> 0]}
    /\ run' = [run EXCEPT ![r] =
                 LoopHead([IdleRun EXCEPT !.inv = atInv + 1, !.mode = mode,
                                          !.cfg = cfg, !.startTime = clock])]
    /\ UNCHANGED <<rlVars, auxVars, dMsgs, dThreads, atChannels, atProcessed, atStats,
                   callLog, claimLog, crashed, stuck>>

\* An invocation that is not asked for on the debug console (the cron job)
StartRun(r, mode, cfg) ==
    /\ StartInvocation(r, mode, cfg)
    /\ UNCHANGED console

\* logic.ts lines 535-594: listGuildChannels, tag filter, slice
ListChannels(r) ==
    /\ run[r].pc = "poll"
    /\ run' = [run EXCEPT ![r] =
                 NextChannel([@ EXCEPT !.chs = Slice(TaggedChannels,
                                                     run[r].cfg.maxChannelsPerRun)])]
    /\ UNCHANGED <<rlVars, auxVars, console, dMsgs, dThreads, atChannels, atProcessed, atStats,
                   atRuns, atInv, callLog, claimLog, crashed, stuck>>

\* logic.ts line 262
ReadCursor(r) ==
    /\ run[r].pc = "getLast"
    /\ run' = [run EXCEPT ![r] =
                 [@ EXCEPT !.pc = "fetch",
                           !.last = GetLastMessageId(atChannels, run[r].ch)]]
    /\ UNCHANGED <<rlVars, auxVars, console, dMsgs, dThreads, atChannels, atProcessed, atStats,
                   atRuns, atInv, callLog, claimLog, crashed, stuck>>

\* logic.ts lines 269-303: one page of the backward pagination
FetchPage(r) ==
    LET rr == run[r]
        batch == GetMessages(Len(dMsgs[rr.ch]), rr.before, PageLimit)
        oldestInBatch == batch[Len(batch)]
        got == [rr EXCEPT !.fetched = @ \o batch,
                          !.withThread = @ \cup {m \in Range(batch) :
                                                    HasThread(rr.ch, m)}]
    IN  /\ rr.pc = "fetch"
        /\ run' = [run EXCEPT ![r] =
                     IF batch = <<>> THEN Scanned(rr)
                     ELSE IF rr.last # NullId /\ oldestInBatch <= rr.last
                     THEN Scanned(got)
                     ELSE IF rr.page + 1 < MaxPages
                     THEN [got EXCEPT !.before = oldestInBatch, !.page = @ + 1]
                     ELSE Scanned(got)]
        /\ UNCHANGED <<rlVars, auxVars, console, dMsgs, dThreads, atChannels, atProcessed, atStats,
                       atRuns, atInv, callLog, claimLog, crashed, stuck>>

\* logic.ts lines 300 and 324: updateChannelState without a message id
TouchChannel(r) ==
    /\ run[r].pc = "touch"
    /\ atChannels' = UpdateChannelState(atChannels, run[r].ch, NullId, clock)
    /\ run' = [run EXCEPT ![r] = ChannelDone(@)]
    /\ UNCHANGED <<rlVars, auxVars, console, dMsgs, dThreads, atProcessed, atStats, atRuns, atInv,
                   callLog, claimLog, crashed, stuck>>

\* logic.ts lines 305-336: the cooldown check, once per pass over a channel
CheckCooldown(r) ==
    LET rr == run[r]
        onCooldown == IsChannelOnCooldown(atProcessed, rr.ch, clock,
                                          CooldownWindowMs,
                                          MaxThreadsPerChannelPerWindow)
    IN  /\ rr.pc = "cooldown"
        /\ run' = [run EXCEPT ![r] =
                     IF onCooldown
                     THEN IF rr.mode # "plan"
                          THEN [rr EXCEPT !.pc = "touch", !.newq = <<>>,
                                          !.withThread = {}]
                          ELSE ChannelDone(rr)
                     ELSE NextMessage([rr EXCEPT !.tc = 0, !.safe = rr.last])]
        /\ UNCHANGED <<rlVars, auxVars, console, dMsgs, dThreads, atChannels, atProcessed, atStats,
                       atRuns, atInv, callLog, claimLog, crashed, stuck>>

\* logic.ts line 396: if (!claimed) { ... continue; }
Proceeds_always(claimed) == TRUE
Proceeds(claimed) == claimed

\* logic.ts line 417: if (config.mode === "dry_run") { ... continue; }
IsDryRun_never(mode) == FALSE
IsDryRun(mode) == mode = "dry_run"

\* logic.ts line 393: config.mode === "dry_run" ? "dry_run" : "processing"
ClaimStatus_planned(mode) == IF mode = "dry_run" THEN "dry_run" ELSE "planned"
ClaimStatus(mode) == IF mode = "dry_run" THEN "dry_run" ELSE "processing"

\* logic.ts lines 338-435: gates, then tryClaimMessage with the status of the
\* case ("skipped" when a gate failed, whose result is ignored)
ClaimMessage(r) ==
    LET rr == run[r]
        m == Head(rr.newq)
        passed == GatesPassOn(rr, m)
        status == IF ~passed THEN "skipped" ELSE ClaimStatus(rr.mode)
        res == TryClaimMessage(atProcessed, rr.ch, m, status, clock)
        done == [rr EXCEPT !.safe = m, !.newq = Tail(@)]
    IN  /\ rr.pc = "claim"
        /\ atProcessed' = res.tbl
        /\ claimLog' = claimLog \cup {[ch |-> rr.ch, msg |-> m, inv |-> rr.inv,
                                       status |-> status, won |-> res.claimed]}
        /\ run' = [run EXCEPT ![r] =
                     IF ~passed THEN NextMessage(done)
                     ELSE IF ~Proceeds(res.claimed) THEN NextMessage(done)
                     ELSE IF IsDryRun(rr.mode)
                     THEN NextMessage([done EXCEPT !.tc = @ + 1])
                     ELSE [rr EXCEPT !.pc = "create"]]
        /\ UNCHANGED <<rlVars, auxVars, console, dMsgs, dThreads, atChannels, atStats, atRuns,
                       atInv, callLog, crashed, stuck>>

\* store.ts lines 204-211 and logic.ts lines 350, 394: the INSERT of
\* tryClaimMessage fails with an error that is no uniqueness violation;
\* tryClaimMessage rethrows and processChannel has no handler around the call
ClaimMessageFails(r) ==
    /\ run[r].pc = "claim"
    /\ run' = [run EXCEPT ![r] = ChannelFailed(run[r])]
    /\ UNCHANGED <<rlVars, auxVars, console, dMsgs, dThreads, atChannels, atProcessed,
                   atStats, atRuns, atInv, callLog, claimLog, crashed, stuck>>

\* errors.ts lines 38-41: the error is a DiscordApiError with code 160004,
\* which is what Discord answers when the message already has a thread
IsThreadAlreadyExistsError_never(hasThread) == FALSE
IsThreadAlreadyExistsError(hasThread) == hasThread

\* logic.ts lines 438-443 and 476-490: startThreadFromMessage answers; Discord
\* refuses a second thread on a message with error 160004
CreateThread(r) ==
    LET rr == run[r]
        m == Head(rr.newq)
    IN  /\ rr.pc = "create"
        /\ callLog' = LogCall(rr, m, IF IsThreadAlreadyExistsError(HasThread(rr.ch, m))
                                     THEN "exists" ELSE "ok")
        /\ IF IsThreadAlreadyExistsError(HasThread(rr.ch, m))
           THEN /\ dThreads' = dThreads
                /\ run' = [run EXCEPT ![r] = [rr EXCEPT !.pc = "markExists"]]
           ELSE /\ dThreads' = dThreads \cup {NewThread(rr.ch, m, "bot")}
                /\ run' = [run EXCEPT ![r] = [rr EXCEPT !.pc = "mark", !.thread = m]]
        /\ UNCHANGED <<rlVars, auxVars, console, dMsgs, atChannels, atProcessed, atStats, atRuns,
                       atInv, claimLog, crashed, stuck>>

\* logic.ts lines 476-495: startThreadFromMessage fails with another error
CreateThreadFails(r) ==
    LET rr == run[r]
    IN  /\ rr.pc = "create"
        /\ callLog' = LogCall(rr, Head(rr.newq), "failed")
        /\ run' = [run EXCEPT ![r] = [rr EXCEPT !.pc = "markError", !.errs = @ + 1]]
        /\ UNCHANGED <<rlVars, auxVars, console, dMsgs, dThreads, atChannels, atProcessed, atStats,
                       atRuns, atInv, claimLog, crashed, stuck>>

\* logic.ts lines 408-414 and 438-443: with enableAI the name generator has
\* returned a summary and the channel is not in quiet mode; the creation
\* succeeds and the summary is to be posted in the new thread
CreateThreadWithSummary(r) ==
    LET rr == run[r]
        m == Head(rr.newq)
    IN  /\ rr.pc = "create"
        /\ ~HasThread(rr.ch, m)
        /\ callLog' = LogCall(rr, m, "ok")
        /\ dThreads' = dThreads \cup {NewThread(rr.ch, m, "bot")}
        /\ run' = [run EXCEPT ![r] = [rr EXCEPT !.pc = "summary", !.thread = m]]
        /\ UNCHANGED <<rlVars, auxVars, console, dMsgs, atChannels, atProcessed, atStats, atRuns,
                       atInv, claimLog, crashed, stuck>>

\* logic.ts lines 445-447: discord.sendMessage(thread.id, summary)
SendSummary(r) ==
    LET rr == run[r]
    IN  /\ rr.pc = "summary"
        /\ dThreads' = {IF th.ch = rr.ch /\ th.msg = rr.thread
                         THEN [th EXCEPT !.summary = TRUE] ELSE th : th \in dThreads}
        /\ run' = [run EXCEPT ![r] = [rr EXCEPT !.pc = "mark"]]
        /\ UNCHANGED <<rlVars, auxVars, console, dMsgs, atChannels, atProcessed, atStats, atRuns,
                       atInv, callLog, claimLog, crashed, stuck>>

\* logic.ts lines 448-453: sendMessage fails; the failure is logged and dropped
\* logic.ts lines 448-453: the inner catch only warns; the field summaryWarned
\* is the history of that warning for the message in hand
OnSummaryError_rethrown(rr) == [rr EXCEPT !.pc = "markError", !.errs = @ + 1,
                                          !.summaryWarned = TRUE]
OnSummaryError(rr) == [rr EXCEPT !.pc = "mark", !.summaryWarned = TRUE]

SendSummaryFails(r) ==
    LET rr == run[r]
    IN  /\ rr.pc = "summary"
        /\ run' = [run EXCEPT ![r] = OnSummaryError(rr)]
        /\ UNCHANGED <<rlVars, auxVars, console, dMsgs, dThreads, atChannels, atProcessed, atStats,
                       atRuns, atInv, callLog, claimLog, crashed, stuck>>

\* logic.ts line 456
MarkCreated(r) ==
    LET rr == run[r]
    IN  /\ rr.pc = "mark"
        /\ atProcessed' = UpdateMessageStatus(atProcessed, rr.ch, Head(rr.newq),
                                              "created", rr.thread, FALSE, clock)
        /\ run' = [run EXCEPT ![r] = [rr EXCEPT !.pc = "stat"]]
        /\ UNCHANGED <<rlVars, auxVars, console, dMsgs, dThreads, atChannels, atStats, atRuns,
                       atInv, callLog, claimLog, crashed, stuck>>

\* logic.ts lines 457-475
RecordThreadCreated(r) ==
    LET rr == run[r]
    IN  /\ rr.pc = "stat"
        /\ atStats' = [atStats EXCEPT ![rr.ch] = @ + 1]
        /\ run' = [run EXCEPT ![r] =
                     NextMessage([rr EXCEPT !.tc = @ + 1, !.safe = Head(rr.newq),
                                            !.newq = Tail(@), !.thread = NullId,
                                            !.summaryWarned = FALSE])]
        /\ UNCHANGED <<rlVars, auxVars, console, dMsgs, dThreads, atChannels, atProcessed, atRuns,
                       atInv, callLog, claimLog, crashed, stuck>>

\* logic.ts lines 480-490
MarkExists(r) ==
    LET rr == run[r]
    IN  /\ rr.pc = "markExists"
        /\ atProcessed' = UpdateMessageStatus(atProcessed, rr.ch, Head(rr.newq),
                                              "created", NullId, FALSE, clock)
        /\ run' = [run EXCEPT ![r] =
                     NextMessage([rr EXCEPT !.safe = Head(rr.newq),
                                            !.newq = Tail(@)])]
        /\ UNCHANGED <<rlVars, auxVars, console, dMsgs, dThreads, atChannels, atStats, atRuns,
                       atInv, callLog, claimLog, crashed, stuck>>

\* logic.ts lines 495-512
MarkError(r) ==
    LET rr == run[r]
    IN  /\ rr.pc = "markError"
        /\ atProcessed' = UpdateMessageStatus(atProcessed, rr.ch, Head(rr.newq),
                                              "error", NullId, TRUE, clock)
        /\ run' = [run EXCEPT ![r] =
                     NextMessage([rr EXCEPT !.safe = Head(rr.newq),
                                            !.newq = Tail(@)])]
        /\ UNCHANGED <<rlVars, auxVars, console, dMsgs, dThreads, atChannels, atStats, atRuns,
                       atInv, callLog, claimLog, crashed, stuck>>

\* logic.ts lines 515-525: the cursor write that ends a pass
UpdateCursor(r) ==
    /\ run[r].pc = "cursor"
    /\ atChannels' = UpdateChannelState(atChannels, run[r].ch, run[r].safe, clock)
    /\ run' = [run EXCEPT ![r] = ChannelDone(@)]
    /\ UNCHANGED <<rlVars, auxVars, console, dMsgs, dThreads, atProcessed, atStats, atRuns, atInv,
                   callLog, claimLog, crashed, stuck>>

\* store.ts lines 406-409: the wait between two polls is over
PollSleep(r) ==
    /\ run[r].pc = "sleep"
    /\ clock >= run[r].wakeAt
    /\ run' = [run EXCEPT ![r] = LoopHead([@ EXCEPT !.wakeAt = 0])]
    /\ UNCHANGED <<rlVars, auxVars, console, dMsgs, dThreads, atChannels, atProcessed, atStats,
                   atRuns, atInv, callLog, claimLog, crashed, stuck>>

\* store.ts lines 416-430: endRun (the events table, written after it, is
\* not part of the model)
EndRun(r) ==
    LET rr == run[r]
    IN  /\ rr.pc = "end"
        /\ atRuns' = {IF row.id = rr.inv
                      THEN [row EXCEPT !.status = IF rr.errs > 0
                                                  THEN "completed_with_errors"
                                                  ELSE "ok",
                                       !.iterations = rr.iter,
                                       !.threads_created = rr.tcRun,
                                       !.error_count = rr.errs]
                      ELSE row : row \in atRuns}
        /\ run' = [run EXCEPT ![r] = IdleRun]
        /\ UNCHANGED <<rlVars, auxVars, console, dMsgs, dThreads, atChannels, atProcessed, atStats,
                       atInv, callLog, claimLog, crashed, stuck>>

\* The platform ends an invocation between two steps (time limit, redeploy):
\* its locals are lost, what it wrote stays.
Crash(r) ==
    LET rr == run[r]
    IN  /\ rr.pc # "idle"
        /\ crashed' = IF rr.pc = "create"
                      THEN crashed \cup {[ch |-> rr.ch, msg |-> Head(rr.newq)]}
                      ELSE crashed
        /\ stuck' = IF rr.pc = "create"
                    THEN stuck \cup {[ch |-> rr.ch, msg |-> Head(rr.newq)]}
                    ELSE stuck
        /\ run' = [run EXCEPT ![r] = IdleRun]
        /\ UNCHANGED <<rlVars, auxVars, console, dMsgs, dThreads, atChannels, atProcessed, atStats,
                       atRuns, atInv, callLog, claimLog>>

\* The invocation ends during the creation call: Discord has received the
\* request, the answer finds nobody.
CrashDuringCreate(r) ==
    LET rr == run[r]
        m == Head(rr.newq)
    IN  /\ rr.pc = "create"
        /\ callLog' = LogCall(rr, m, "lost")
        /\ dThreads' = IF HasThread(rr.ch, m) THEN dThreads
                       ELSE dThreads \cup {NewThread(rr.ch, m, "bot")}
        /\ crashed' = crashed \cup {[ch |-> rr.ch, msg |-> m]}
        /\ stuck' = stuck \cup {[ch |-> rr.ch, msg |-> m]}
        /\ run' = [run EXCEPT ![r] = IdleRun]
        /\ UNCHANGED <<rlVars, auxVars, console, dMsgs, atChannels, atProcessed, atStats, atRuns,
                       atInv, claimLog>>

\* A member posts a message in a tagged channel
PostMessage(c, content, maxMsgs) ==
    /\ Len(dMsgs[c]) < maxMsgs
    /\ dMsgs' = [dMsgs EXCEPT ![c] = Append(@, content)]
    /\ UNCHANGED <<rlVars, auxVars, console, dThreads, atChannels, atProcessed, atStats, atRuns,
                   run, atInv, callLog, claimLog, crashed, stuck>>

\* A member starts a thread on a message by hand
MemberStartsThread(c, m) ==
    /\ m \in 1..Len(dMsgs[c])
    /\ ~HasThread(c, m)
    /\ dThreads' = dThreads \cup {NewThread(c, m, "member")}
    /\ UNCHANGED <<rlVars, auxVars, console, dMsgs, atChannels, atProcessed, atStats, atRuns,
                   run, atInv, callLog, claimLog, crashed, stuck>>

TickAT ==
    /\ clock < MaxTicksAT * TickATMs
    /\ clock' = clock + TickATMs
    /\ UNCHANGED <<rlState, atVars, auxVars>>

\* retention cron (unnamed/part_004 lines 71-76, 136-146): the cutoff of a
\* sweep of the processed table
RetentionMs == RetentionDays * 24 * 60 * 60 * MsPerSecond

Expired(row, now) == row.processed_at < ToSqliteTimestamp(now - RetentionMs)

\* unnamed/part_004 lines 38-49 and 84-107: DELETE ... WHERE processed_at < ?,
\* in batches until one comes back short; the table holds less than a batch
RetentionSweep ==
    /\ \E row \in atProcessed : Expired(row, clock)
    /\ atProcessed' = {row \in atProcessed : ~Expired(row, clock)}
    /\ stuck' = {p \in stuck : \E row \in RowsOf(atProcessed, p.ch, p.msg) :
                                  ~Expired(row, clock)}
    /\ UNCHANGED <<rlVars, auxVars, console, dMsgs, dThreads, atChannels, atStats, atRuns, run,
                   atInv, callLog, claimLog, crashed>>

\* More than the retention period goes by with no invocation in flight
RetentionPeriodPasses ==
    /\ \A r \in Runs : run[r].pc = "idle"
    /\ clock < MaxPeriods * (RetentionMs + MsPerSecond)
    /\ clock' = clock + RetentionMs + MsPerSecond
    /\ UNCHANGED <<rlState, atVars, auxVars>>

\* The rate limiter at rest while the autothread engine is observed
RlQuiet ==
    /\ rlConfig = [maxRequests |-> 1, windowSeconds |-> 1]
    /\ rlStore = [k \in Keys |-> NoRow]
    /\ dbLock = {}
    /\ initialized = FALSE
    /\ rl = [p \in Procs |-> IdleReq]
    /\ rlHist = {}
    /\ rlCalls = 0
    /\ rlOverlap = {}
    /\ rlLastRej = [k \in Keys |-> [set |-> FALSE, t |-> 0, r |-> 0]]

\* Contents a member posts: one that passes every gate, one a bot wrote
SomeContents == {GoodContent, Content(TRUE, FALSE, FALSE, FALSE, FALSE, FALSE)}

\* Contents that fail no gate or exactly one of the gates on author and text
GateContents ==
    {c \in AllContents :
        Cardinality({f \in {"bot", "tooShort", "isCommand", "isEmojiOnly",
                            "isLinkOnly", "isMentionOnly"} : c[f]}) <= 1}

NoneInFlight == \A r \in Runs : run[r].pc = "idle"

\* The specifications of one busy channel: members write in the first tagged
\* channel, the other ones stay silent
FirstChannel == {Head(TaggedChannels)}

(***************************************************************************)
(* Overlapping live invocations on one channel                             *)
(***************************************************************************)
InitAT ==
    /\ clock = 0
    /\ RlQuiet
    /\ AtQuiet
    /\ AuxQuiet

NextAT ==
    \/ \E r \in Runs : StartRun(r, "live", DebugDefaultConfig)
    \/ \E r \in Runs : ListChannels(r)
    \/ \E r \in Runs : ReadCursor(r)
    \/ \E r \in Runs : FetchPage(r)
    \/ \E r \in Runs : TouchChannel(r)
    \/ \E r \in Runs : CheckCooldown(r)
    \/ \E r \in Runs : ClaimMessage(r)
    \/ \E r \in Runs : CreateThread(r)
    \/ \E r \in Runs : CreateThreadFails(r)
    \/ \E r \in Runs : MarkCreated(r)
    \/ \E r \in Runs : RecordThreadCreated(r)
    \/ \E r \in Runs : MarkExists(r)
    \/ \E r \in Runs : MarkError(r)
    \/ \E r \in Runs : UpdateCursor(r)
    \/ \E r \in Runs : EndRun(r)
    \/ \E r \in Runs : Crash(r)
    \/ \E r \in Runs : CrashDuringCreate(r)
    \/ \E c \in FirstChannel, content \in SomeContents : PostMessage(c, content, MaxMsgs)
    \/ \E c \in FirstChannel, m \in 1..MaxMsgs : MemberStartsThread(c, m)

SpecAT == InitAT /\ [][NextAT]_vars

(***************************************************************************)
(* Crashed invocations, the retention sweep and the invocations after it   *)
(***************************************************************************)
NextCrash ==
    \/ \E r \in Runs : StartRun(r, "live", DebugDefaultConfig)
    \/ \E r \in Runs : ListChannels(r)
    \/ \E r \in Runs : ReadCursor(r)
    \/ \E r \in Runs : FetchPage(r)
    \/ \E r \in Runs : TouchChannel(r)
    \/ \E r \in Runs : CheckCooldown(r)
    \/ \E r \in Runs : ClaimMessage(r)
    \/ \E r \in Runs : CreateThread(r)
    \/ \E r \in Runs : CreateThreadFails(r)
    \/ \E r \in Runs : MarkCreated(r)
    \/ \E r \in Runs : RecordThreadCreated(r)
    \/ \E r \in Runs : MarkExists(r)
    \/ \E r \in Runs : MarkError(r)
    \/ \E r \in Runs : UpdateCursor(r)
    \/ \E r \in Runs : EndRun(r)
    \/ \E r \in Runs : Crash(r)
    \/ \E r \in Runs : CrashDuringCreate(r)
    \/ \E c \in FirstChannel : PostMessage(c, GoodContent, MaxMsgsCrash)
    \/ \E c \in FirstChannel, m \in 1..MaxMsgsCrash : MemberStartsThread(c, m)
    \/ RetentionSweep
    \/ RetentionPeriodPasses

SpecCrash == InitAT /\ [][NextCrash]_vars

(***************************************************************************)
(* The gates: live and dry-run invocations over every kind of message      *)
(***************************************************************************)
NextGates ==
    \/ \E r \in Runs, mode \in {"live", "dry_run"} :
          StartRun(r, mode, DebugDefaultConfig)
    \/ \E r \in Runs : ListChannels(r)
    \/ \E r \in Runs : ReadCursor(r)
    \/ \E r \in Runs : FetchPage(r)
    \/ \E r \in Runs : TouchChannel(r)
    \/ \E r \in Runs : CheckCooldown(r)
    \/ \E r \in Runs : ClaimMessage(r)
    \/ \E r \in Runs : CreateThread(r)
    \/ \E r \in Runs : CreateThreadFails(r)
    \/ \E r \in Runs : MarkCreated(r)
    \/ \E r \in Runs : RecordThreadCreated(r)
    \/ \E r \in Runs : MarkExists(r)
    \/ \E r \in Runs : MarkError(r)
    \/ \E r \in Runs : UpdateCursor(r)
    \/ \E r \in Runs : EndRun(r)
    \/ \E r \in Runs : Crash(r)
    \/ \E c \in FirstChannel, content \in GateContents :
          PostMessage(c, content, MaxMsgsGates)
    \/ \E c \in FirstChannel, m \in 1..MaxMsgsGates : MemberStartsThread(c, m)

SpecGates == InitAT /\ [][NextGates]_vars

(***************************************************************************)
(* The cron, one invocation after the other, on a busy channel             *)
(***************************************************************************)
NextCooldown ==
    \/ NoneInFlight /\ \E r \in Runs : StartRun(r, "live", DefaultConfig)
    \/ \E r \in Runs : ListChannels(r)
    \/ \E r \in Runs : ReadCursor(r)
    \/ \E r \in Runs : FetchPage(r)
    \/ \E r \in Runs : TouchChannel(r)
    \/ \E r \in Runs : CheckCooldown(r)
    \/ \E r \in Runs : ClaimMessage(r)
    \/ \E r \in Runs : CreateThread(r)
    \/ \E r \in Runs : MarkCreated(r)
    \/ \E r \in Runs : RecordThreadCreated(r)
    \/ \E r \in Runs : UpdateCursor(r)
    \/ \E r \in Runs : PollSleep(r)
    \/ \E r \in Runs : EndRun(r)
    \/ \E c \in FirstChannel : PostMessage(c, GoodContent, MaxMsgsCooldown)
    \/ TickAT

SpecCooldown == InitAT /\ [][NextCooldown]_vars

(***************************************************************************)
(* The three modes: plan, dry-run and live invocations, overlapping, with  *)
(* the name generator returning a summary or none                          *)
(***************************************************************************)
Modes == {"plan", "dry_run", "live"}

NextModes ==
    \/ \E r \in Runs, mode \in Modes : StartRun(r, mode, DebugDefaultConfig)
    \/ \E r \in Runs : ListChannels(r)
    \/ \E r \in Runs : ReadCursor(r)
    \/ \E r \in Runs : FetchPage(r)
    \/ \E r \in Runs : TouchChannel(r)
    \/ \E r \in Runs : CheckCooldown(r)
    \/ \E r \in Runs : ClaimMessage(r)
    \/ \E r \in Runs : CreateThread(r)
    \/ \E r \in Runs : CreateThreadWithSummary(r)
    \/ \E r \in Runs : SendSummary(r)
    \/ \E r \in Runs : SendSummaryFails(r)
    \/ \E r \in Runs : MarkCreated(r)
    \/ \E r \in Runs : RecordThreadCreated(r)
    \/ \E r \in Runs : UpdateCursor(r)
    \/ \E r \in Runs : EndRun(r)
    \/ \E c \in FirstChannel, content \in SomeContents :
          PostMessage(c, content, MaxMsgsModes)

SpecModes == InitAT /\ [][NextModes]_vars

(***************************************************************************)
(* The debug console: POST /run, autothread-debug.http.ts lines 109-160     *)
(***************************************************************************)
\* The JSON body is not validated: mode and namespace are any text, or absent
RunBodies ==
    [mode : {"absent", "dry_run", "live", "LIVE"},
     namespace : {"absent", "prod", "production"},
     confirm : {"absent", "LIVE_PROD"}]

\* lines 112-113: body.namespace ?? "sandbox", body.mode ?? "plan"
OrDefault(field, default) == IF field = "absent" THEN default ELSE field

\* lines 116-126: live on prod without confirm: "LIVE_PROD" is answered 400
RunRefused_never(mode, namespace, confirm) == FALSE
RunRefused(mode, namespace, confirm) ==
    mode = "live" /\ namespace = "prod" /\ confirm # "LIVE_PROD"

\* types.ts lines 59-60: the suffix of the tables a namespace names
GetTableNames(namespace) == IF namespace = "sandbox" THEN "_sandbox" ELSE ""

\* The tables of the model are those of one suffix: a behaviour follows the
\* invocations that work on one set of tables.
SameTables(namespace) ==
    \A q \in console :
        q.inv # 0 => GetTableNames(q.namespace) = GetTableNames(namespace)

\* lines 109-148: the handler up to its call of runAutothread, or its 400
PostRun(r, body) ==
    LET namespace == OrDefault(body.namespace, "sandbox")
        mode == OrDefault(body.mode, "plan")
        request == [mode |-> mode, namespace |-> namespace,
                    confirm |-> body.confirm]
    IN  IF RunRefused(mode, namespace, body.confirm)
        THEN /\ console' = console \cup {request @@ [inv |-> 0, status |-> "400"]}
             /\ UNCHANGED <<rlVars, auxVars, dMsgs, dThreads, atChannels, atProcessed,
                            atStats, atRuns, run, atInv, callLog, claimLog,
                            crashed, stuck>>
        ELSE /\ SameTables(namespace)
             /\ StartInvocation(r, mode, [ConsoleConfig(1, 2) EXCEPT
                                              !.namespace = namespace])
             /\ console' = console \cup {request @@ [inv |-> atInv + 1,
                                                      status |-> "started"]}

NextConsole ==
    \/ NoneInFlight /\ \E r \in Runs, body \in RunBodies : PostRun(r, body)
    \/ \E r \in Runs : ListChannels(r)
    \/ \E r \in Runs : ReadCursor(r)
    \/ \E r \in Runs : FetchPage(r)
    \/ \E r \in Runs : TouchChannel(r)
    \/ \E r \in Runs : CheckCooldown(r)
    \/ \E r \in Runs : ClaimMessage(r)
    \/ \E r \in Runs : CreateThread(r)
    \/ \E r \in Runs : MarkCreated(r)
    \/ \E r \in Runs : RecordThreadCreated(r)
    \/ \E r \in Runs : UpdateCursor(r)
    \/ \E r \in Runs : EndRun(r)
    \/ \E c \in FirstChannel : PostMessage(c, GoodContent, MaxMsgsConsole)

SpecConsole == InitAT /\ [][NextConsole]_vars

(***************************************************************************)
(* A busy channel: members write more between two polls than the pages of  *)
(* one pass hold (MAX_PAGES pages of 100, logic.ts lines 267-270)          *)
(***************************************************************************)
\* What one pass can fetch, and one message more
BurstSizes == {MaxPages * PageLimit, MaxPages * PageLimit + 1}

\* Members post n messages between two polls
PostBurst(c, n) ==
    /\ Len(dMsgs[c]) <= MaxMsgsBurst
    /\ dMsgs' = [dMsgs EXCEPT ![c] = @ \o [i \in 1..n |-> GoodContent]]
    /\ UNCHANGED <<rlVars, auxVars, console, dThreads, atChannels, atProcessed, atStats,
                   atRuns, run, atInv, callLog, claimLog, crashed, stuck>>

NextBurst ==
    \/ NoneInFlight /\ \E r \in Runs : StartRun(r, "live", DebugDefaultConfig)
    \/ \E r \in Runs : ListChannels(r)
    \/ \E r \in Runs : ReadCursor(r)
    \/ \E r \in Runs : FetchPage(r)
    \/ \E r \in Runs : TouchChannel(r)
    \/ \E r \in Runs : CheckCooldown(r)
    \/ \E r \in Runs : ClaimMessage(r)
    \/ \E r \in Runs : CreateThread(r)
    \/ \E r \in Runs : MarkCreated(r)
    \/ \E r \in Runs : RecordThreadCreated(r)
    \/ \E r \in Runs : UpdateCursor(r)
    \/ \E r \in Runs : EndRun(r)
    \/ \E c \in FirstChannel, content \in SomeContents :
          PostMessage(c, content, MaxMsgsBurst)
    \/ NoneInFlight /\ \E c \in FirstChannel, n \in BurstSizes : PostBurst(c, n)

SpecBurst == InitAT /\ [][NextBurst]_vars

(***************************************************************************)
(* Store faults: live invocations, one after the other, over every tagged  *)
(* channel, with the claim insert failing now and then                     *)
(***************************************************************************)
NextFault ==
    \/ NoneInFlight /\ \E r \in Runs : StartRun(r, "live", ConsoleConfig(NumChannels, 2))
    \/ \E r \in Runs : ListChannels(r)
    \/ \E r \in Runs : ReadCursor(r)
    \/ \E r \in Runs : FetchPage(r)
    \/ \E r \in Runs : TouchChannel(r)
    \/ \E r \in Runs : CheckCooldown(r)
    \/ \E r \in Runs : ClaimMessage(r)
    \/ \E r \in Runs : ClaimMessageFails(r)
    \/ \E r \in Runs : CreateThread(r)
    \/ \E r \in Runs : MarkCreated(r)
    \/ \E r \in Runs : RecordThreadCreated(r)
    \/ \E r \in Runs : UpdateCursor(r)
    \/ \E r \in Runs : EndRun(r)
    \/ \E c \in Channels, content \in SomeContents :
          PostMessage(c, content, MaxMsgsFault)

SpecFault == InitAT /\ [][NextFault]_vars

(***************************************************************************)
(* Failing creation calls: live invocations, one after the other, over     *)
(* every tagged channel, with Discord refusing calls and members starting  *)
(* threads by hand                                                         *)
(***************************************************************************)
NextErrors ==
    \/ NoneInFlight /\ \E r \in Runs : StartRun(r, "live", ConsoleConfig(NumChannels, 2))
    \/ \E r \in Runs : ListChannels(r)
    \/ \E r \in Runs : ReadCursor(r)
    \/ \E r \in Runs : FetchPage(r)
    \/ \E r \in Runs : TouchChannel(r)
    \/ \E r \in Runs : CheckCooldown(r)
    \/ \E r \in Runs : ClaimMessage(r)
    \/ \E r \in Runs : CreateThread(r)
    \/ \E r \in Runs : CreateThreadFails(r)
    \/ \E r \in Runs : MarkCreated(r)
    \/ \E r \in Runs : RecordThreadCreated(r)
    \/ \E r \in Runs : MarkExists(r)
    \/ \E r \in Runs : MarkError(r)
    \/ \E r \in Runs : UpdateCursor(r)
    \/ \E r \in Runs : EndRun(r)
    \/ \E c \in Channels : PostMessage(c, GoodContent, MaxMsgsErrors)
    \/ \E c \in Channels, m \in 1..MaxMsgsErrors : MemberStartsThread(c, m)

SpecErrors == InitAT /\ [][NextErrors]_vars

(***************************************************************************)
(* The thread cap: live invocations that recur, one after the other, on a  *)
(* channel holding more messages than one invocation may handle.  Every    *)
(* await of the invocation in flight settles (the runtime resumes it), and *)
(* the scheduler starts the next invocation as long as the bound on        *)
(* invocations allows.                                                     *)
(***************************************************************************)
StepCap(r) ==
    \/ ListChannels(r)
    \/ ReadCursor(r)
    \/ FetchPage(r)
    \/ TouchChannel(r)
    \/ CheckCooldown(r)
    \/ ClaimMessage(r)
    \/ CreateThread(r)
    \/ CreateThreadFails(r)
    \/ MarkCreated(r)
    \/ RecordThreadCreated(r)
    \/ MarkError(r)
    \/ UpdateCursor(r)
    \/ EndRun(r)

StartCap == NoneInFlight /\ \E r \in Runs : StartRun(r, "live", DebugDefaultConfig)

NextCap ==
    \/ StartCap
    \/ \E r \in Runs : StepCap(r)
    \/ \E c \in FirstChannel : PostMessage(c, GoodContent, MaxMsgsCap)

\* one invocation at a time: at any moment either its next step or the
\* start of the next invocation is the one thing the engine can do
FairCap == WF_vars(StartCap \/ \E r \in Runs : StepCap(r))

SpecCap == InitAT /\ [][NextCap]_vars /\ FairCap

(***************************************************************************)
(* Claims about the rate limiter                                           *)
(***************************************************************************)
Admitted(e) == e.allowed
Recorded(e) == e.allowed /\ e.how = "committed"

\* The calls among `es` for key k stamped within the window that ends at `t`
InTrailingWindow(es, k, t) ==
    {f \in es : f.key = k /\ f.now <= t /\ f.now >= t - WindowMs}

\* C1 (as stated): for every key, no trailing window of windowSeconds holds
\* more than maxRequests calls that returned allowed = true.
C1_AtMostNAllowedPerWindow ==
    \A e \in rlHist :
        Admitted(e) =>
            Cardinality(InTrailingWindow({f \in rlHist : Admitted(f)}, e.key, e.now))
                <= rlConfig.maxRequests

\* C1 (amended): for a key whose calls never overlapped, no trailing window
\* holds more than maxRequests calls that returned allowed = true from a
\* committed transaction (calls that failed open are not counted).
C1_AtMostNRecordedPerWindow ==
    \A e \in rlHist :
        (Recorded(e) /\ e.key \notin rlOverlap) =>
            Cardinality(InTrailingWindow({f \in rlHist : Recorded(f)}, e.key, e.now))
                <= rlConfig.maxRequests

\* C1 witness: a key with sequential calls has a full window and a call that
\* was rejected because of it.
C1_Witness ==
    \E e \in rlHist :
        /\ e.how = "committed" /\ ~e.allowed /\ e.key \notin rlOverlap
        /\ Cardinality(InTrailingWindow({f \in rlHist : Recorded(f)}, e.key, e.now))
              = rlConfig.maxRequests

RacedPairs ==
    {pair \in rlHist \X rlHist :
        /\ pair[1].id < pair[2].id
        /\ pair[1].racedWith = pair[2].id
        /\ pair[2].racedWith = pair[1].id}

\* C2 (as stated): of two concurrent calls competing for the last slot of a
\* key's window, at most one returns allowed = true.
C2_AtMostOneAllowed ==
    \A pair \in RacedPairs : ~(Admitted(pair[1]) /\ Admitted(pair[2]))

\* C2 (amended): of two concurrent calls competing for the last slot, at most
\* one is admitted by a committed transaction; the other is rejected or fails
\* open without recording a timestamp.
C2_AtMostOneRecorded ==
    \A pair \in RacedPairs : ~(Recorded(pair[1]) /\ Recorded(pair[2]))

\* C2 witness: two calls raced for the last slot, one was admitted and the
\* other rejected by its own committed transaction.
C2_Witness ==
    \E pair \in RacedPairs :
        \E a \in {pair[1], pair[2]}, b \in {pair[1], pair[2]} :
            /\ Recorded(a)
            /\ b.how = "committed" /\ ~b.allowed

\* C3: a call made exactly retryAfterSeconds after a rejection, with no call
\* for the key in between, returns allowed = true.
C3_RetryAfterSucceeds ==
    \A e \in rlHist : e.probe => e.allowed

\* C4: check() never throws to its caller because of lock contention.
C4_NeverThrowsOnContention ==
    \A e \in rlHist : e.how # "threw_busy"

(***************************************************************************)
(* Claims about the autothread engine                                      *)
(***************************************************************************)
Cursor(c) == GetLastMessageId(atChannels, c)

\* the attempts to claim <<c, m>> for a live creation
LiveClaims(c, m) ==
    {e \in claimLog : e.ch = c /\ e.msg = m /\ e.status = "processing"}

AtCreationCall(inv, c, m) ==
    \E r \in Runs : /\ run[r].inv = inv /\ run[r].pc = "create"
                    /\ run[r].ch = c /\ Head(run[r].newq) = m

\* C5: when two live invocations both try to claim the same pair, exactly one
\* insert succeeds and exactly one processed row exists; the invocation whose
\* claim collided makes no creation call for the pair, and the one that won
\* makes exactly one (none yet while it stands before the call, or if it died
\* there).
C5_OneCallOneRecord ==
    \A c \in Channels, m \in 1..MaxMsgs :
        LET attempts == LiveClaims(c, m)
            winners == {e \in attempts : e.won}
        IN  Cardinality({e.inv : e \in attempts}) >= 2 =>
              /\ Cardinality(winners) = 1
              /\ Cardinality(RowsOf(atProcessed, c, m)) = 1
              /\ \A call \in CallsFor(c, m) : \E w \in winners : w.inv = call.inv
              /\ Cardinality(CallsFor(c, m)) <= 1
              /\ \A w \in winners :
                    (~AtCreationCall(w.inv, c, m) /\ [ch |-> c, msg |-> m] \notin crashed)
                        => Cardinality(CallsFor(c, m)) = 1

\* C5 witness: two invocations in flight at once have both tried to claim the
\* same pair, and the one creation call for it has been made.
C5_Witness ==
    \E c \in Channels, m \in 1..MaxMsgs :
        /\ \A r \in Runs : /\ run[r].pc # "idle"
                           /\ \E e \in LiveClaims(c, m) : e.inv = run[r].inv
        /\ Cardinality(CallsFor(c, m)) = 1

\* C6: the stored cursor of a channel never decreases, whatever step of
\* whatever invocation is taken.
C6_CursorOnlyMovesForward ==
    [][\A c \in Channels :
          GetLastMessageId(atChannels', c) >= GetLastMessageId(atChannels, c)]_vars

\* C7: the stored cursor of a channel is never at or past a message whose
\* processed record is missing or not terminal.
C7_CursorOnlyPastTerminal ==
    \A c \in Channels, m \in 1..MaxMsgs :
        m <= Cursor(c) =>
            /\ RowsOf(atProcessed, c, m) # {}
            /\ \A row \in RowsOf(atProcessed, c, m) : row.status \in TerminalStatuses

\* the threads the engine started in channel c in the window that ends at t
ThreadsInWindow(c, t) ==
    {th \in dThreads : /\ th.ch = c /\ th.by = "bot"
                       /\ th.at > t - CooldownWindowMs /\ th.at <= t}

\* C8: no trailing 10-minute window holds more than 3 threads that the engine
\* created in one channel.
C8_AtMostThreePerWindow ==
    \A c \in Channels :
        Cardinality(ThreadsInWindow(c, clock)) <= MaxThreadsPerChannelPerWindow

\* "one of the gates fails", for the gates on the author and the text
StaticGateFails(msg) ==
    \/ msg.bot \/ msg.tooShort \/ msg.isCommand
    \/ msg.isEmojiOnly \/ msg.isLinkOnly \/ msg.isMentionOnly

\* the passes that found a gate failing on <<c, m>> (they ask for "skipped")
SkipAttempts == {e \in claimLog : e.status = "skipped"}

\* C9 (as stated): a message on which a live or dry-run pass found a gate
\* failing has a record with status skipped, and no creation call.
C9_GateFailIsSkipped ==
    \A e \in SkipAttempts :
        /\ CallsFor(e.ch, e.msg) = {}
        /\ \A row \in RowsOf(atProcessed, e.ch, e.msg) : row.status = "skipped"

\* C9 (amended): a message failing a gate on its author or text never gets a
\* creation call nor a record other than skipped; a pass that finds any gate
\* failing (an existing thread included) makes no creation call for the
\* message, its insert, where no record exists, is a skipped record that
\* nobody ever follows with a call, and otherwise the existing record stays.
C9_GateFailNeverCreates ==
    /\ \A c \in Channels, m \in 1..MaxMsgs :
          (m <= Len(dMsgs[c]) /\ StaticGateFails(dMsgs[c][m])) =>
              /\ CallsFor(c, m) = {}
              /\ \A row \in RowsOf(atProcessed, c, m) : row.status = "skipped"
    /\ \A e \in SkipAttempts :
          /\ \A call \in CallsFor(e.ch, e.msg) : call.inv # e.inv
          /\ RowsOf(atProcessed, e.ch, e.msg) # {}
          /\ e.won =>
                /\ CallsFor(e.ch, e.msg) = {}
                /\ \A row \in RowsOf(atProcessed, e.ch, e.msg) :
                      row.status = "skipped" /\ row.thread_id = NullId

\* C9 witness: a message failing a gate on its author or text has been through
\* a pass, whose insert succeeded, and is recorded skipped.
C9_Witness ==
    \E e \in SkipAttempts :
        /\ e.won
        /\ StaticGateFails(dMsgs[e.ch][e.msg])
        /\ \E row \in RowsOf(atProcessed, e.ch, e.msg) : row.status = "skipped"

LeftAtCap(c, m) ==
    \E r \in Runs : /\ run[r].pc = "cursor" /\ run[r].ch = c
                    /\ m \in Range(run[r].newq)

WithinNextBudget(c, m) ==
    \E r \in Runs :
        /\ run[r].pc = "cursor" /\ run[r].ch = c
        /\ \E i \in 1..Len(run[r].newq) :
              run[r].newq[i] = m /\ i <= run[r].cfg.maxThreadsPerRun

OnCooldown(c) ==
    IsChannelOnCooldown(atProcessed, c, clock, CooldownWindowMs,
                        MaxThreadsPerChannelPerWindow)

HasRecord(c, m) == RowsOf(atProcessed, c, m) # {}

StepOf(r, mode) ==
    /\ run'[r] # run[r]
    /\ \/ run[r].pc # "idle" /\ run[r].mode = mode
       \/ run[r].pc = "idle" /\ run'[r].mode = mode

\* the mode the runs table holds for an invocation
ModeOf(inv) == (CHOOSE row \in atRuns : row.id = inv).mode

\* C12: no step of a plan invocation, from its start to its return, changes a
\* row of an autothread table (channels, processed, stats, runs), and none
\* calls startThreadFromMessage or sendMessage.
C12_PlanWritesNothing ==
    [][\A r \in Runs :
          StepOf(r, "plan") =>
              /\ atChannels' = atChannels /\ atProcessed' = atProcessed
              /\ atStats' = atStats /\ atRuns' = atRuns
              /\ callLog' = callLog /\ dThreads' = dThreads]_vars

\* C13: no step of a dry-run invocation calls startThreadFromMessage or
\* sendMessage (no call is logged, no thread appears or gets a summary), and
\* every message a dry-run pass has handled has a processed record, which is
\* the pass's own claim (dry_run, or skipped) when its insert succeeded.
C13_DryRunClaimsWithoutCalls ==
    /\ [][\A r \in Runs :
            StepOf(r, "dry_run") => callLog' = callLog /\ dThreads' = dThreads]_vars
    /\ [](\A e \in claimLog :
            ModeOf(e.inv) = "dry_run" =>
                /\ e.status \in {"dry_run", "skipped"}
                /\ HasRecord(e.ch, e.msg)
                /\ e.won => \A row \in RowsOf(atProcessed, e.ch, e.msg) :
                                row.status = e.status /\ row.thread_id = NullId)

\* C13 witness: a dry-run invocation has returned after counting a thread; the
\* message it claimed is recorded dry_run and has no thread.
C13_Witness ==
    \E row \in atRuns :
        /\ row.mode = "dry_run" /\ row.status = "ok" /\ row.threads_created > 0
        /\ \E e \in claimLog :
              /\ e.inv = row.id /\ e.won /\ e.status = "dry_run"
              /\ ~HasThread(e.ch, e.msg)
              /\ \E rec \in RowsOf(atProcessed, e.ch, e.msg) : rec.status = "dry_run"

\* invocation inv stands at step pc of its work on message m of channel c
AtStep(inv, c, m, pc) ==
    \E r \in Runs : /\ run[r].inv = inv /\ run[r].pc = pc
                    /\ run[r].ch = c /\ Head(run[r].newq) = m

CallsOf(inv) == {call \in callLog : call.inv = inv}
FailedCalls(inv) == {call \in CallsOf(inv) : call.res = "failed"}

\* a pass that met a failure goes on: to the next new message of the channel
\* when there is one, else to the cursor write that ends the channel, and
\* from there to the next channel while the thread cap allows
ContinuesAfterFailure(r) ==
    LET rr == run[r]
    IN  /\ (rr.pc = "markError" /\ run'[r] # rr) =>
              /\ run'[r].inv = rr.inv /\ run'[r].chs = rr.chs
              /\ IF Tail(rr.newq) # <<>>
                 THEN run'[r].pc = "claim" /\ run'[r].newq = Tail(rr.newq)
                 ELSE run'[r].pc = "cursor" /\ run'[r].safe = Head(rr.newq)
        /\ (rr.pc = "cursor" /\ rr.errs > 0 /\ run'[r] # rr) =>
              IF rr.chs # <<>> /\ rr.tcRun + rr.tc < rr.cfg.maxThreadsPerRun
              THEN /\ run'[r].pc = "getLast" /\ run'[r].ch = Head(rr.chs)
                   /\ run'[r].inv = rr.inv /\ run'[r].errs = rr.errs
              ELSE run'[r].pc = "end"

\* C14: in live mode, a creation call that failed with an error other than
\* "already exists" leaves the message's record at error with the detail
\* (once the write that follows the failure is done); the error counter of
\* the invocation, in flight and as stored at its end, is the number of its
\* failed calls; and the pass goes on with the remaining new messages of the
\* channel and with the remaining channels.
C14_FailureIsRecordedAndPassedOver ==
    /\ [](\A call \in callLog :
            call.res = "failed" =>
                \/ AtStep(call.inv, call.ch, call.msg, "markError")
                \/ /\ HasRecord(call.ch, call.msg)
                   /\ \A row \in RowsOf(atProcessed, call.ch, call.msg) :
                         row.status = "error" /\ row.error /\ row.thread_id = NullId)
    /\ [](/\ \A r \in Runs : run[r].pc # "idle" =>
                  run[r].errs = Cardinality(FailedCalls(run[r].inv))
          /\ \A row \in atRuns : row.status # "running" =>
                  row.error_count = Cardinality(FailedCalls(row.id)))
    /\ [][\A r \in Runs : ContinuesAfterFailure(r)]_vars

\* C14 witness: an invocation has ended with one error counted; after the
\* failed call it has created a thread on a later message of the same
\* channel and has claimed a message of a later channel.
C14_Witness ==
    \E row \in atRuns :
        /\ row.status = "completed_with_errors" /\ row.error_count = 1
        /\ \E bad \in FailedCalls(row.id) :
              /\ \E rec \in RowsOf(atProcessed, bad.ch, bad.msg) : rec.status = "error"
              /\ \E good \in CallsOf(row.id) :
                    good.ch = bad.ch /\ good.msg > bad.msg /\ good.res = "ok"
              /\ \E e \in claimLog : e.inv = row.id /\ e.ch > bad.ch /\ e.won

\* the calls that Discord answered with error 160004
ExistsCalls == {call \in callLog : call.res = "exists"}

\* C15: a creation call on a message that already has a thread is answered
\* with the recognized error 160004; the message's record then becomes
\* created with no thread id (once the write that follows is done), the
\* step that meets the error and the one that records it leave the error
\* counter as it is, an invocation with no other failure ends with no error
\* counted, and the marker the cursor is written from moves to the message.
C15_AlreadyExistsCountsAsCreated ==
    /\ [](\A call \in callLog :
            /\ call.res = "exists" => call.had
            /\ call.had => call.res \in {"exists", "failed"})
    /\ [](\A call \in ExistsCalls :
            \/ AtStep(call.inv, call.ch, call.msg, "markExists")
            \/ /\ HasRecord(call.ch, call.msg)
               /\ \A row \in RowsOf(atProcessed, call.ch, call.msg) :
                     row.status = "created" /\ row.thread_id = NullId /\ ~row.error)
    /\ [](\A row \in atRuns :
            (row.status # "running" /\ FailedCalls(row.id) = {}) =>
                row.status = "ok" /\ row.error_count = 0)
    /\ [][\A r \in Runs :
            /\ (run[r].pc = "create" /\ run'[r].pc = "markExists") =>
                   run'[r].errs = run[r].errs
            /\ (run[r].pc = "markExists" /\ run'[r] # run[r]) =>
                   /\ run'[r].errs = run[r].errs
                   /\ run'[r].safe = Head(run[r].newq)]_vars

\* C15 witness: a call was answered with 160004 by an invocation that has
\* ended with no error counted; the record is created without a thread id
\* and the cursor stands at or past the message.
C15_Witness ==
    \E call \in ExistsCalls :
        /\ \E row \in atRuns : /\ row.id = call.inv /\ row.status = "ok"
                                /\ row.error_count = 0
        /\ \E rec \in RowsOf(atProcessed, call.ch, call.msg) :
              rec.status = "created" /\ rec.thread_id = NullId
        /\ Cursor(call.ch) >= call.msg

\* C20: the creation calls an invocation has made, over all its poll
\* iterations and channels, never number more than its maxThreadsPerRun.
C20_CallsWithinCap ==
    \A r \in Runs :
        run[r].pc # "idle" =>
            Cardinality(CallsOf(run[r].inv)) <= run[r].cfg.maxThreadsPerRun

(***************************************************************************)
(* Rate limiter: what a result says about the stored window                *)
(***************************************************************************)
\* The calls that return in this step
Returning == rlHist' \ rlHist

StoredTimes(row) == IF row.present THEN ParseRequestTimes(row.request_times) ELSE <<>>

\* The row a recording transaction of call e leaves behind (lines 153, 179-192)
RecordedRow(e, row) ==
    [present |-> TRUE,
     request_times |->
         JsonStringify(Append(FilterRecent(StoredTimes(row), WindowStart(e.now)),
                              e.now)),
     updated_at |-> e.now]

\* C16 as stated: whenever check(k) returns allowed = true, the stored window
\* of k is the pruned window with the call's timestamp appended.
C16_AllowedIsRecorded ==
    [][\A e \in Returning :
           e.allowed => rlStore'[e.key] = RecordedRow(e, rlStore[e.key])]_vars

\* C16 amended: an allowed = true that comes from a committed transaction has
\* appended the call's timestamp to the pruned stored window of its key; an
\* allowed = true that comes from failing open has written nothing.
C16_CommittedAllowedIsRecorded ==
    [][\A e \in Returning :
           /\ Recorded(e) => rlStore'[e.key] = RecordedRow(e, rlStore[e.key])
           /\ e.how = "failopen" => e.allowed /\ rlStore' = rlStore]_vars

\* A call admitted on a retry whose timestamp is the newest stored one
C16_Witness ==
    \E e \in rlHist :
        /\ Recorded(e)
        /\ e.attempt > 0
        /\ rlStore[e.key].present
        /\ Len(StoredTimes(rlStore[e.key])) > 1
        /\ StoredTimes(rlStore[e.key])[Len(StoredTimes(rlStore[e.key]))] = e.now
        /\ rlStore[e.key].updated_at = e.now

\* C17: a check(k) that returns allowed = false leaves the stored sequence of
\* timestamps of k as it was (only updated_at moves), and nothing but a
\* committing call changes the store.
C17_DenialKeepsStoredTimes ==
    [][/\ \A e \in Returning :
             (~e.allowed /\ e.how = "committed") =>
                 /\ rlStore[e.key].present
                 /\ rlStore'[e.key] = [rlStore[e.key] EXCEPT !.updated_at = e.now]
                 /\ \A k \in Keys \ {e.key} : rlStore'[k] = rlStore[k]
       /\ rlStore' # rlStore => \E e \in Returning : e.how = "committed"]_vars

\* A denied call at a time that is not among the stored timestamps
C17_Witness ==
    \E e \in rlHist :
        /\ ~e.allowed
        /\ e.how = "committed"
        /\ e.now \notin Range(StoredTimes(rlStore[e.key]))
        /\ rlStore[e.key].updated_at = e.now
        /\ e.retry >= 1

(***************************************************************************)
(* Rate limiter: distinct keys                                             *)
(***************************************************************************)
\* The earlier calls for e's key whose recorded timestamp lies in e's window
OwnRecent(e) ==
    {f \in rlHist : /\ f.key = e.key
                    /\ f.id < e.id
                    /\ Recorded(f)
                    /\ f.now >= e.now - WindowMs}

\* What the history of e's own key alone says the result of e is
OwnVerdict(e) == Cardinality(OwnRecent(e)) < rlConfig.maxRequests

\* Only a committing call for k changes the stored entry of k
WritesOwnKeyOnly ==
    \A k \in Keys :
        rlStore'[k] # rlStore[k] =>
            \E e \in Returning : e.key = k /\ e.how = "committed"

\* C18 as stated: a call never changes the stored entry of another key, and
\* the result of every call (made one at a time for its key) is the one the
\* earlier calls for its own key determine.
C18_KeysNeverInterfere ==
    /\ [][WritesOwnKeyOnly]_vars
    /\ [](\A e \in rlHist :
             e.key \notin rlOverlap =>
                 /\ e.how # "threw_busy"
                 /\ e.allowed <=> OwnVerdict(e))

\* C18 amended: a call never changes the stored entry of another key, and the
\* result of a call whose transaction commits (calls made one at a time for
\* its key) is the one the earlier calls for its own key determine.
C18_CommittedResultIsOwnKeys ==
    /\ [][WritesOwnKeyOnly]_vars
    /\ [](\A e \in rlHist :
             (e.key \notin rlOverlap /\ e.how = "committed") =>
                 (e.allowed <=> OwnVerdict(e)))

\* A key is denied on its own record although another key's request was
\* recorded between its two calls, and both keys have a stored entry
C18_Witness ==
    \E d, f, g \in rlHist :
        /\ d.key \notin rlOverlap
        /\ d.how = "committed" /\ ~d.allowed
        /\ g.key = d.key /\ Recorded(g) /\ g.id < f.id
        /\ f.key # d.key /\ Recorded(f) /\ f.id < d.id
        /\ f.now >= d.now - WindowMs
        /\ \A k \in {d.key, f.key} : rlStore[k].present

(***************************************************************************)
(* Rate limiter: stored text that is not a JSON array                      *)
(***************************************************************************)
FreshRow(now) ==
    [present |-> TRUE, request_times |-> JsonStringify(<<now>>), updated_at |-> now]

\* lines 128-153, 156, 179: the transaction that reads an unparsable row
\* takes the window as empty, decides to allow and prepares the fresh row
ReadsUnparsableAsEmpty ==
    \A p \in Procs :
        (rl[p].pc = "select" /\ rl'[p].pc = "commit"
            /\ Unparsable(rlStore[rl[p].key])) =>
                /\ rl'[p].sawCorrupt
                /\ rl'[p].result = "allowed"
                /\ rl'[p].pending = FreshRow(rl[p].now)

\* C19 as stated: a call that finds unparsable stored data treats the window
\* as empty, returns allowed = true and has overwritten the stored value with
\* a window holding only its timestamp.
C19_UnparsableIsOverwritten ==
    [][/\ ReadsUnparsableAsEmpty
       /\ \A e \in Returning :
             e.sawCorrupt => e.allowed /\ rlStore'[e.key] = FreshRow(e.now)]_vars

\* C19 amended: such a call returns allowed = true; when its transaction
\* commits the stored value is the window holding only its timestamp, and
\* when the transaction fails the unparsable value stays.
C19_UnparsableIsOverwrittenOnCommit ==
    [][/\ ReadsUnparsableAsEmpty
       /\ \A e \in Returning :
             e.sawCorrupt =>
                 /\ e.allowed
                 /\ e.how = "committed" => rlStore'[e.key] = FreshRow(e.now)
                 /\ e.how = "failopen" =>
                        rlStore' = rlStore /\ Unparsable(rlStore'[e.key])]_vars

\* A full window was replaced by unparsable text and the next call was
\* admitted and left the fresh single-entry window
C19_Witness ==
    \E e, f \in rlHist :
        /\ e.sawCorrupt /\ Recorded(e)
        /\ rlStore[e.key] = FreshRow(e.now)
        /\ f.key = e.key /\ Recorded(f) /\ f.id < e.id
        /\ f.now >= e.now - WindowMs
        /\ rlConfig.maxRequests = 1

(***************************************************************************)
(* Rate limiter: the updated_at marker                                     *)
(***************************************************************************)
\* C21 as stated: every check(k) call that ends, allowed or not, leaves the
\* entry of k with updated_at equal to the time the call read.
C21_EveryCallRefreshesUpdatedAt ==
    [][\A e \in Returning :
           rlStore'[e.key].present /\ rlStore'[e.key].updated_at = e.now]_vars

\* C21 amended: a call whose transaction commits, allowed or denied, leaves
\* the entry of k with updated_at equal to the time the call read; a call
\* that ends any other way leaves the marker as it was.
C21_CommittedCallRefreshesUpdatedAt ==
    [][\A e \in Returning :
           /\ e.how = "committed" =>
                  /\ rlStore'[e.key].present
                  /\ rlStore'[e.key].updated_at = e.now
           /\ e.how # "committed" =>
                  /\ rlStore'[e.key].present = rlStore[e.key].present
                  /\ rlStore'[e.key].updated_at = rlStore[e.key].updated_at]_vars

\* A denial later than every stored timestamp has moved the marker
C21_Witness ==
    \E d \in rlHist :
        /\ d.how = "committed" /\ ~d.allowed
        /\ rlStore[d.key].updated_at = d.now
        /\ \A t \in Range(StoredTimes(rlStore[d.key])) : t < d.now
        /\ \E a \in rlHist : a.key = d.key /\ Recorded(a) /\ a.id < d.id

(***************************************************************************)
(* rateLimitMiddleware                                                     *)
(***************************************************************************)
\* C22: a check() that returns allowed = false is answered 429 with a
\* Retry-After header that is the text of retryAfterSeconds and the downstream
\* handler is not invoked; a check() that returns allowed = true invokes the
\* downstream handler exactly once.
C22_DenialIs429AdmissionCallsNext ==
    \A e \in rlHist :
        /\ (e.how = "committed" /\ ~e.allowed) =>
               /\ e.response.status = "429"
               /\ e.response.retryAfter = ToString(e.retry)
               /\ e.retry >= 1
               /\ e.response.nextCalls = 0
        /\ e.allowed =>
               /\ e.response.nextCalls = 1
               /\ e.response.status # "429"

\* One request was answered 429 and another, failing open, went downstream
C22_Witness ==
    \E d, a \in rlHist :
        /\ d.how = "committed" /\ ~d.allowed
        /\ d.response.status = "429" /\ d.response.retryAfter = "1"
        /\ a.how = "failopen" /\ a.response.nextCalls = 1

(***************************************************************************)
(* The debug console                                                       *)
(***************************************************************************)
\* logic.ts lines 357, 393, 417: the engine runs as live every mode that is
\* neither "plan" nor "dry_run"
RunsLive(mode) == mode \notin {"plan", "dry_run"}

\* For the exact texts "live" and "prod" the guard of lines 116-126 holds: no
\* such invocation without confirm, and the 400 starts nothing.
GuardOnExactValues ==
    /\ [](/\ \A q \in console :
               (q.mode = "live" /\ q.namespace = "prod" /\ q.confirm # "LIVE_PROD")
                   => q.status = "400" /\ q.inv = 0
          /\ \A r \in Runs :
               (run[r].pc # "idle" /\ run[r].mode = "live"
                    /\ run[r].cfg.namespace = "prod") =>
                   \E q \in console : /\ q.inv = run[r].inv
                                      /\ q.status = "started"
                                      /\ q.confirm = "LIVE_PROD")
    /\ [][(\E q \in console' \ console : q.status = "400") =>
              UNCHANGED <<run, atRuns, atInv, atChannels, atProcessed, atStats,
                          callLog, claimLog, dThreads>>]_vars

C24_PaginationLeavesNoGap ==
    /\ [][\A r \in Runs :
             (run[r].pc = "fetch" /\ run'[r].pc = "cooldown"
                  /\ run[r].last # NullId) =>
                 \A m \in (run[r].last + 1)..run'[r].newq[Len(run'[r].newq)] :
                     m \in Range(run'[r].newq)]_vars
    /\ [](\A c \in Channels :
             \A m \in 1..Len(dMsgs[c]) : m <= Cursor(c) => HasRecord(c, m))

(***************************************************************************)
(* Store faults                                                            *)
(***************************************************************************)
\* The step in which the claim insert of invocation slot r fails
ClaimFailedStep(r) == run[r].pc = "claim" /\ run'[r].errs = run[r].errs + 1

\* C25: when the claim insert for one message fails with a store error, one
\* error is counted and the pass goes on: with the next new message of the
\* same channel when there is one, and with the remaining channels.
C25_ClaimFaultCostsOneMessage ==
    [][\A r \in Runs :
           ClaimFailedStep(r) =>
               IF Tail(run[r].newq) # <<>>
               THEN /\ run'[r].ch = run[r].ch
                    /\ run'[r].newq = Tail(run[r].newq)
                    /\ run'[r].pc = "claim"
               ELSE run[r].chs # <<>> => run'[r].ch = Head(run[r].chs)]_vars

RecentOf(row, now) == {t \in Range(StoredTimes(row)) : t >= now - WindowMs}

\* The oldest of them
OldestOf(row, now) ==
    CHOOSE t \in RecentOf(row, now) : \A u \in RecentOf(row, now) : t <= u

\* n is the least integer with n * 1000 >= ms
IsCeilOfSeconds(n, ms) == n * MsPerSecond >= ms /\ (n - 1) * MsPerSecond < ms

\* C27: a rejected call returns retryAfterSeconds =
\* max(1, ceil((min(recent) + windowMs - now) / 1000)) over the stored
\* timestamps >= now - windowMs; the value is an integer >= 1.
C27_RetryAfterIsCeilFlooredAtOne ==
    [][\A e \in Returning :
           (e.how = "committed" /\ ~e.allowed) =>
               LET waitMs == OldestOf(rlStore[e.key], e.now) + WindowMs - e.now
               IN  /\ RecentOf(rlStore[e.key], e.now) # {}
                   /\ e.retry \in Nat
                   /\ e.retry >= 1
                   /\ IF waitMs <= MsPerSecond
                      THEN e.retry = 1
                      ELSE IsCeilOfSeconds(e.retry, waitMs)]_vars

\* One rejection at the very end of the window (the floor at 1), one with a
\* wait that is no whole number of seconds
C27_Witness ==
    /\ \E e \in rlHist :
          /\ e.how = "committed" /\ ~e.allowed
          /\ e.retry = 1
          /\ e.now - WindowMs \in Range(StoredTimes(rlStore[e.key]))
    /\ \E e \in rlHist :
          /\ e.how = "committed" /\ ~e.allowed
          /\ e.retry = 2
          /\ \E t \in Range(StoredTimes(rlStore[e.key])) :
                t + WindowMs - e.now = MsPerSecond + TickMs

(***************************************************************************)
(* Claim before call                                                       *)
(***************************************************************************)
\* C28: every startThreadFromMessage call for <<c, m>> comes after a
\* successful insert, by the same invocation, of the processed record of
\* <<c, m>> with status processing; an invocation whose claim of <<c, m>>
\* collided, or that is not live, makes no call for it.
C28_CallOnlyAfterOwnClaim ==
    /\ \A call \in callLog :
          \E e \in claimLog : /\ e.ch = call.ch /\ e.msg = call.msg
                              /\ e.inv = call.inv
                              /\ e.status = "processing" /\ e.won
    /\ \A e \in claimLog :
          (~e.won \/ e.status # "processing") =>
              \A call \in callLog :
                  ~(call.ch = e.ch /\ call.msg = e.msg /\ call.inv = e.inv)
    /\ \A r \in Runs :
          run[r].pc = "create" =>
              \E row \in RowsOf(atProcessed, run[r].ch, Head(run[r].newq)) :
                  row.status \in {"processing", "created", "error"}

\* Two invocations tried to claim one message: the winner has called, the
\* one that collided has gone on without a call
C28_Witness ==
    \E e, f \in claimLog :
        /\ e.ch = f.ch /\ e.msg = f.msg /\ e.inv # f.inv
        /\ e.status = "processing" /\ e.won
        /\ f.status = "processing" /\ ~f.won
        /\ \E call \in callLog : call.inv = e.inv /\ call.ch = e.ch /\ call.msg = e.msg
        /\ \A r \in Runs : run[r].inv = f.inv => run[r].pc = "idle"

(***************************************************************************)
(* Order of handling                                                       *)
(***************************************************************************)
StrictlyIncreasing(seq) == \A i \in 1..(Len(seq) - 1) : seq[i] < seq[i + 1]

\* The step in which invocation slot r examines the message at the head of
\* its new messages and tries to claim it
ExaminesHead(r) ==
    run[r].pc = "claim" /\ run'[r] # run[r] /\ claimLog' # claimLog

\* C29: the new messages of a pass wait in strictly increasing id order,
\* whatever the order of the pages, and the pass examines them in that order:
\* when it examines a message, every message it has examined before in the
\* channel is an earlier one and every new message still waiting a later one.
C29_HandledOldestFirst ==
    /\ [](\A r \in Runs : StrictlyIncreasing(run[r].newq))
    /\ [][\A r \in Runs :
             ExaminesHead(r) =>
                 LET m == Head(run[r].newq)
                 IN  /\ \A e \in claimLog :
                            (e.inv = run[r].inv /\ e.ch = run[r].ch) => e.msg < m
                     /\ \A k \in Range(Tail(run[r].newq)) : m < k
                     /\ \E e \in claimLog' \ claimLog :
                            e.msg = m /\ e.ch = run[r].ch /\ e.inv = run[r].inv]_vars

\* A pass that fetched three pages has examined its two oldest new messages
C29_Witness ==
    \E r \in Runs :
        /\ run[r].pc \in {"claim", "create", "mark"}
        /\ Len(run[r].newq) > 2 * PageLimit
        /\ \E e \in claimLog :
              /\ e.inv = run[r].inv /\ e.ch = run[r].ch
              /\ e.msg < Head(run[r].newq)

(***************************************************************************)
(* Passes that find nothing to do: dry-run and live invocations from the   *)
(* console, one after the other, on a channel that reaches its cooldown    *)
(***************************************************************************)
NextIdle ==
    \/ /\ NoneInFlight
       /\ \E r \in Runs, mode \in {"dry_run", "live"} :
             StartRun(r, mode, ConsoleConfig(1, MaxThreadsPerChannelPerWindow))
    \/ \E r \in Runs : ListChannels(r)
    \/ \E r \in Runs : ReadCursor(r)
    \/ \E r \in Runs : FetchPage(r)
    \/ \E r \in Runs : TouchChannel(r)
    \/ \E r \in Runs : CheckCooldown(r)
    \/ \E r \in Runs : ClaimMessage(r)
    \/ \E r \in Runs : CreateThread(r)
    \/ \E r \in Runs : MarkCreated(r)
    \/ \E r \in Runs : RecordThreadCreated(r)
    \/ \E r \in Runs : UpdateCursor(r)
    \/ \E r \in Runs : EndRun(r)
    \/ \E c \in FirstChannel, content \in SomeContents :
          PostMessage(c, content, MaxMsgsIdle)
    \/ TickAT

SpecIdle == InitAT /\ [][NextIdle]_vars

\* The channel of the pass holds no message above the cursor the pass read
NothingNew(r) == Len(dMsgs[run[r].ch]) <= run[r].last

\* The step in which the pass of slot r decides that it has nothing to do,
\* and the step in which it then writes the channel's row
DecidesIdle(r) == run[r].pc # "touch" /\ run'[r].pc = "touch"
WritesIdleRow(r) == run[r].pc = "touch" /\ run'[r] # run[r]

\* C30: a dry_run or live pass that finds the channel on cooldown, or finds
\* no new message, goes on to upsert the channel's row; it decides so
\* straight after the scan or the cooldown check, before any message is
\* examined, and neither the decision nor the upsert inserts a processed
\* record or moves last_message_id: the upsert makes the row present and
\* sets last_seen_at to the current time, nothing else.
C30_IdlePassOnlyTouchesRow ==
    [][\A r \in Runs :
          /\ (/\ run[r].pc = "cooldown" /\ run[r].mode # "plan"
              /\ OnCooldown(run[r].ch) /\ run'[r] # run[r])
                 => run'[r].pc = "touch"
          /\ (/\ run[r].pc = "fetch" /\ run[r].mode # "plan"
              /\ NothingNew(r) /\ run'[r].pc # "fetch")
                 => run'[r].pc = "touch"
          /\ DecidesIdle(r) =>
                 /\ run[r].mode \in {"dry_run", "live"}
                 /\ \/ run[r].pc = "fetch" /\ NothingNew(r)
                    \/ run[r].pc = "cooldown" /\ OnCooldown(run[r].ch)
                 /\ UNCHANGED <<atChannels, atProcessed, claimLog, callLog>>
          /\ (run'[r].pc \in {"fetch", "cooldown"} /\ run[r].pc # run'[r].pc)
                 => run[r].pc \in {"getLast", "fetch"}
          /\ ExaminesHead(r) => run[r].pc = "claim"
          /\ WritesIdleRow(r) =>
                 LET c == run[r].ch
                 IN  /\ atChannels'[c].present
                     /\ atChannels'[c].last_seen_at = ToSqliteTimestamp(clock)
                     /\ GetLastMessageId(atChannels', c) = Cursor(c)
                     /\ \A d \in Channels \ {c} : atChannels'[d] = atChannels[d]
                     /\ UNCHANGED <<atProcessed, claimLog, callLog>>]_vars

\* A dry-run pass has ended without examining anything, its channel is on
\* cooldown with a message waiting above the cursor, and the row was written
\* at the current time, later than the start
C30_Witness ==
    \E r \in Runs, c \in FirstChannel :
        /\ run[r].mode = "dry_run" /\ run[r].pc = "end"
        /\ \A e \in claimLog : e.inv # run[r].inv
        /\ OnCooldown(c)
        /\ Len(dMsgs[c]) > Cursor(c)
        /\ atChannels[c].present
        /\ clock > 0
        /\ atChannels[c].last_seen_at = ToSqliteTimestamp(clock)

(***************************************************************************)
(* A summary that could not be posted                                      *)
(***************************************************************************)
\* The step of invocation slot r
Steps(r) == run'[r] # run[r]

\* The processed rows of the message that slot r has in hand
RowsInHand(tbl, r) == RowsOf(tbl, run[r].ch, Head(run[r].newq))

\* C31: in live mode, when sendMessage fails after the thread was started,
\* the pass goes on to the bookkeeping of a created thread: no error is
\* counted at the failure or after it, the record of the message becomes
\* created with the thread's id, and the thread is counted in threadsCreated.
C31_SummaryFailureKeepsCreation ==
    [][\A r \in Runs :
          /\ (run[r].pc = "summary" /\ Steps(r) /\ run'[r].summaryWarned) =>
                 /\ run[r].mode = "live"
                 /\ run'[r].pc = "mark"
                 /\ run'[r].errs = run[r].errs
                 /\ run'[r].thread = run[r].thread
          /\ (run[r].summaryWarned /\ Steps(r)) =>
                 /\ run'[r].errs = run[r].errs
                 /\ run[r].pc \in {"mark", "stat"}
                 /\ run[r].pc = "mark" =>
                        /\ run'[r].pc = "stat" /\ run'[r].summaryWarned
                        /\ RowsInHand(atProcessed', r) # {}
                        /\ \A row \in RowsInHand(atProcessed', r) :
                               /\ row.status = "created"
                               /\ row.thread_id = run[r].thread
                               /\ row.thread_id # NullId
                 /\ run[r].pc = "stat" =>
                        /\ run'[r].tc + run'[r].tcRun
                              = run[r].tc + run[r].tcRun + 1
                        /\ ~run'[r].summaryWarned]_vars

\* The summary failed, and the record of the message is created with the id
\* of the thread, which exists without a summary
C31_Witness ==
    \E r \in Runs :
        /\ run[r].summaryWarned /\ run[r].pc = "stat" /\ run[r].errs = 0
        /\ \E row \in RowsInHand(atProcessed, r) :
              row.status = "created" /\ row.thread_id = run[r].thread
        /\ \E th \in dThreads :
              th.ch = run[r].ch /\ th.msg = run[r].thread /\ ~th.summary

(***************************************************************************)
(* The polling loop: invocations from the console, one after the other,    *)
(* with the iteration cap and the duration chosen in the request body, on  *)
(* a clock that advances by the poll interval.  Every await of the         *)
(* invocation in flight settles, and time passes while a timer is pending. *)
(***************************************************************************)
\* autothread-debug.http.ts lines 137-138
LoopConfig(iterations, durationMs) ==
    [ConsoleConfig(1, 2) EXCEPT !.maxIterations = Min2(iterations, 3),
                                !.runDurationMs = Min2(durationMs, 30000)]

LoopBodies == [iterations : {2, 3}, durationMs : {10000, 20000}]

StartLoop ==
    /\ NoneInFlight
    /\ atInv < MaxInvocationsLoop
    /\ \E r \in Runs, body \in LoopBodies :
          StartRun(r, "live", LoopConfig(body.iterations, body.durationMs))

StepLoop(r) ==
    \/ ListChannels(r)
    \/ ReadCursor(r)
    \/ FetchPage(r)
    \/ TouchChannel(r)
    \/ CheckCooldown(r)
    \/ ClaimMessage(r)
    \/ CreateThread(r)
    \/ MarkCreated(r)
    \/ RecordThreadCreated(r)
    \/ UpdateCursor(r)
    \/ PollSleep(r)
    \/ EndRun(r)

TickLoop ==
    /\ \/ clock < MaxTicksLoop * DefaultConfig.pollIntervalMs
       \/ \E r \in Runs : run[r].pc = "sleep" /\ clock < run[r].wakeAt
    /\ clock' = clock + DefaultConfig.pollIntervalMs
    /\ UNCHANGED <<rlState, atVars, auxVars>>

NextLoop ==
    \/ StartLoop
    \/ \E r \in Runs : StepLoop(r)
    \/ \E c \in FirstChannel : PostMessage(c, GoodContent, MaxMsgsLoop)
    \/ TickLoop

FairLoop == WF_vars(TickLoop) /\ \A r \in Runs : WF_vars(StepLoop(r))

SpecLoop == InitAT /\ [][NextLoop]_vars /\ FairLoop

\* The runs row of an invocation
RunRows(inv) == {row \in atRuns : row.id = inv}

\* C32: an invocation never counts more iterations than config.maxIterations;
\* an iteration starts only while the elapsed time is below runDurationMs,
\* the iteration cap is not reached and fewer than maxThreadsPerRun threads
\* were created; and every invocation that has started its run record ends it.
C32_RunAutothreadTerminates ==
    /\ [](\A r \in Runs : run[r].iter <= run[r].cfg.maxIterations)
    /\ [][\A r \in Runs :
             run'[r].iter = run[r].iter + 1 =>
                 /\ run'[r].pc = "poll"
                 /\ run[r].iter < run'[r].cfg.maxIterations
                 /\ clock - run'[r].startTime < run'[r].cfg.runDurationMs
                 /\ run'[r].tcRun < run'[r].cfg.maxThreadsPerRun]_vars
    /\ \A inv \in 1..MaxInvocationsLoop :
          (\E row \in RunRows(inv) : row.status = "running")
              ~> (\E row \in RunRows(inv) :
                     /\ row.status \in {"ok", "completed_with_errors"}
                     /\ row.iterations <= 3)

\* An invocation has ended after the three iterations its cap allowed, and
\* a later one stops after two of its three because its time has run out
C32_Witness ==
    /\ \E row \in atRuns : row.status = "ok" /\ row.iterations = 3
    /\ \E r \in Runs :
          /\ run[r].pc = "end" /\ run[r].iter = 2
          /\ run[r].cfg.maxIterations = 3
          /\ run[r].tcRun < run[r].cfg.maxThreadsPerRun
          /\ Elapsed(run[r]) >= run[r].cfg.runDurationMs

(***************************************************************************)
(* Store faults after the thread was started: live invocations, one after  *)
(* the other, in which the writes that follow startThreadFromMessage may   *)
(* throw                                                                   *)
(***************************************************************************)
\* logic.ts lines 456 and 476-495: updateMessageStatus(created) throws, the
\* outer catch counts an error and goes on to write the error status
MarkCreatedFails(r) ==
    /\ run[r].pc = "mark"
    /\ run' = [run EXCEPT ![r] = [@ EXCEPT !.pc = "markError", !.errs = @ + 1]]
    /\ UNCHANGED <<rlVars, auxVars, console, dMsgs, dThreads, atChannels, atProcessed,
                   atStats, atRuns, atInv, callLog, claimLog, crashed, stuck>>

\* logic.ts lines 457 and 476-495: recordThreadCreated throws
RecordThreadCreatedFails(r) ==
    /\ run[r].pc = "stat"
    /\ run' = [run EXCEPT ![r] = [@ EXCEPT !.pc = "markError", !.errs = @ + 1]]
    /\ UNCHANGED <<rlVars, auxVars, console, dMsgs, dThreads, atChannels, atProcessed,
                   atStats, atRuns, atInv, callLog, claimLog, crashed, stuck>>

\* logic.ts line 495 and lines 606-615: updateMessageStatus(error) throws
\* inside the catch block, and the pass over the channel is abandoned
MarkErrorFails(r) ==
    /\ run[r].pc = "markError"
    /\ run' = [run EXCEPT ![r] = ChannelFailed(run[r])]
    /\ UNCHANGED <<rlVars, auxVars, console, dMsgs, dThreads, atChannels, atProcessed,
                   atStats, atRuns, atInv, callLog, claimLog, crashed, stuck>>

NextWrites ==
    \/ NoneInFlight /\ \E r \in Runs : StartRun(r, "live", ConsoleConfig(1, 2))
    \/ \E r \in Runs : ListChannels(r)
    \/ \E r \in Runs : ReadCursor(r)
    \/ \E r \in Runs : FetchPage(r)
    \/ \E r \in Runs : TouchChannel(r)
    \/ \E r \in Runs : CheckCooldown(r)
    \/ \E r \in Runs : ClaimMessage(r)
    \/ \E r \in Runs : CreateThread(r)
    \/ \E r \in Runs : CreateThreadFails(r)
    \/ \E r \in Runs : MarkCreated(r)
    \/ \E r \in Runs : MarkCreatedFails(r)
    \/ \E r \in Runs : RecordThreadCreated(r)
    \/ \E r \in Runs : RecordThreadCreatedFails(r)
    \/ \E r \in Runs : MarkExists(r)
    \/ \E r \in Runs : MarkError(r)
    \/ \E r \in Runs : MarkErrorFails(r)
    \/ \E r \in Runs : UpdateCursor(r)
    \/ \E r \in Runs : EndRun(r)
    \/ \E c \in FirstChannel, content \in SomeContents :
          PostMessage(c, content, MaxMsgsWrites)
    \/ \E c \in FirstChannel, m \in 1..MaxMsgsWrites : MemberStartsThread(c, m)

SpecWrites == InitAT /\ [][NextWrites]_vars

\* C33: in every state of the processed table, a record holds a thread id
\* only with status created, and an error detail only with status error.
C33_ThreadIdAndErrorMatchStatus ==
    \A row \in atProcessed :
        /\ row.thread_id # NullId => row.status = "created"
        /\ row.error => row.status = "error"

\* The record of a message whose thread was started has been rewritten as an
\* error without thread id, next to a record created with its thread id
C33_Witness ==
    /\ \E row \in atProcessed :
          /\ row.status = "error" /\ row.error /\ row.thread_id = NullId
          /\ \E call \in callLog :
                call.ch = row.channel_id /\ call.msg = row.message_id
                   /\ call.res = "ok"
    /\ \E row \in atProcessed : row.status = "created" /\ row.thread_id # NullId

(***************************************************************************)
(* A claim that collides                                                   *)
(***************************************************************************)
\* C34: when the claim insert of a pass meets an existing row of the same
\* channel and message, the attempt is logged once as not won, the processed
\* table is left as it was, no error is counted, and the pass leaves the
\* message behind without a second insert: it is no longer among the
\* messages the pass has still to handle, and no call is made for it.
C34_CollisionIsAlreadyHandled ==
    [][\A r \in Runs :
          (ExaminesHead(r) /\ RowsInHand(atProcessed, r) # {}) =>
              /\ atProcessed' = atProcessed
              /\ Cardinality(claimLog' \ claimLog) = 1
              /\ \A e \in claimLog' \ claimLog :
                    ~e.won /\ e.msg = Head(run[r].newq) /\ e.inv = run[r].inv
              /\ run'[r].errs = run[r].errs
              /\ run'[r].pc # "claim" \/ run'[r].newq = Tail(run[r].newq)
              /\ run'[r].pc \notin {"create", "mark", "stat", "markError"}
              /\ callLog' = callLog]_vars

\* An invocation whose processing claim collided with a row that another
\* invocation had inserted has returned without error, and the row is the
\* other invocation's
C34_Witness ==
    \E e \in claimLog, row \in atProcessed, ended \in atRuns :
        /\ ~e.won /\ e.status = "processing"
        /\ row.channel_id = e.ch /\ row.message_id = e.msg
        /\ row.status = "created"
        /\ ended.id = e.inv /\ ended.status = "ok" /\ ended.error_count = 0
        /\ \E w \in claimLog : w.won /\ w.msg = e.msg /\ w.ch = e.ch /\ w.inv # e.inv

(***************************************************************************)
(* Rate limiter: the size of a stored entry                                *)
(***************************************************************************)
\* C35: the entry of a key, stored or about to be committed by a call in
\* flight, never holds more than maxRequests timestamps, whether the calls
\* for the key ran one after the other or overlapped.
C35_StoredTimesAtMostMaxRequests ==
    /\ \A k \in Keys : Len(StoredTimes(rlStore[k])) <= rlConfig.maxRequests
    /\ \A p \in Procs :
          rl[p].pc = "commit" => Len(StoredTimes(rl[p].pending)) <= rlConfig.maxRequests

\* The entry of a key whose calls overlapped is full, and a call was denied
\* because of it
C35_Witness ==
    \E k \in Keys, e \in rlHist :
        /\ k \in rlOverlap
        /\ rlConfig.maxRequests = MaxMaxRequests
        /\ Len(StoredTimes(rlStore[k])) = rlConfig.maxRequests
        /\ e.key = k /\ e.how = "committed" /\ ~e.allowed

(***************************************************************************)
(* What the records say after a store fault                                *)
(***************************************************************************)
\* Invocation inv is still handling message m of channel c
InHand(inv, c, m) ==
    \E r \in Runs :
        /\ run[r].inv = inv /\ run[r].ch = c
        /\ run[r].pc \in {"summary", "mark", "stat", "markError"}
        /\ Head(run[r].newq) = m

\* C36: once startThreadFromMessage has returned successfully for a message,
\* the record of the message is created with the id of that thread as soon
\* as the pass has left the message, and no step sets it to error.
C36_StartedThreadEndsCreated ==
    \A call \in callLog :
        (call.res = "ok" /\ ~InHand(call.inv, call.ch, call.msg)) =>
            \A row \in RowsOf(atProcessed, call.ch, call.msg) :
                row.status = "created" /\ row.thread_id = call.msg

\* The invocation with the given id has returned
HasReturned(inv) == \E row \in RunRows(inv) : row.status # "running"

\* C37: when an invocation has returned, every record it claimed as
\* processing is created or error.
C37_NoProcessingLeftAtReturn ==
    \A e \in claimLog :
        (e.won /\ e.status = "processing" /\ HasReturned(e.inv)) =>
            \A row \in RowsOf(atProcessed, e.ch, e.msg) :
                row.status \in {"created", "error"}

(***************************************************************************)
(* Which channels a poll reaches                                           *)
(***************************************************************************)
\* An invocation is fetching the messages of channel c
Scans(c) == \E r \in Runs : run[r].ch = c /\ run[r].pc = "fetch"

\* The channels listed within the first maxChannelsPerRun
WithinSlice(cfg) == Range(Slice(TaggedChannels, cfg.maxChannelsPerRun))

\* Helper: under the recurring invocations, the channels within the slice are
\* scanned
SlicedChannelsAreScanned ==
    \A c \in WithinSlice(DebugDefaultConfig) : <>Scans(c)

ReqTickMs == 1000 + 100

\* The retry_after member of a 429 body: missing, a number of seconds, or
\* something Number() turns into NaN
RetryAfterFields ==
    {[kind |-> "absent", value |-> 0], [kind |-> "other", value |-> 0]}
        \cup [kind : {"number"}, value : 1..MaxRetryAfter]

HttpStatuses == {200, 429, 500}

\* discord.ts lines 82-85 and 90-92: the delay handed to setTimeout; a NaN
\* delay fires at once
RetryDelayMs(field) ==
    IF field.kind = "number" THEN field.value * 1000 + 100
    ELSE IF field.kind = "absent" THEN 1 * 1000 + 100
    ELSE 0

\* discord.ts line 80
ShouldRetry_always(status, retryCount) == status = 429
ShouldRetry(status, retryCount) == status = 429 /\ retryCount < MAX_RETRIES

\* discord.ts lines 56-59: request(path, init) called with retryCount = 0
SendRequest ==
    /\ req.pc = "idle"
    /\ Cardinality(reqHist) < MaxLogicalRequests
    /\ req' = [IdleRequest EXCEPT !.pc = "fetch", !.id = Cardinality(reqHist) + 1]
    /\ UNCHANGED <<rlVars, atVars, reqHist, cmp>>

\* discord.ts lines 65-105: the response arrives and is dispatched
Respond(status, field) ==
    /\ req.pc = "fetch"
    /\ IF ShouldRetry(status, req.retryCount)
       THEN /\ req' = [req EXCEPT !.pc = "wait", !.attempts = @ + 1,
                                  !.status = status, !.since = clock,
                                  !.wakeAt = clock + RetryDelayMs(field),
                                  !.indicated = field]
            /\ UNCHANGED reqHist
       ELSE /\ reqHist' = reqHist \cup
                  {[id |-> req.id, attempts |-> req.attempts + 1,
                    retries |-> req.retryCount, status |-> status,
                    outcome |-> IF status = 200 THEN "ok" ELSE "DiscordApiError"]}
            /\ req' = IdleRequest
    /\ UNCHANGED <<rlVars, atVars, cmp>>

\* discord.ts lines 90-93: the timer fires and request() calls itself
Resume ==
    /\ req.pc = "wait"
    /\ clock >= req.wakeAt
    /\ req' = [req EXCEPT !.pc = "fetch", !.retryCount = @ + 1]
    /\ UNCHANGED <<rlVars, atVars, reqHist, cmp>>

TickRequest ==
    /\ \/ clock < MaxTicksRequest * ReqTickMs
       \/ req.pc = "wait" /\ clock < req.wakeAt
    /\ clock' = clock + ReqTickMs
    /\ UNCHANGED <<rlState, atVars, auxVars>>

NextRequest ==
    \/ SendRequest
    \/ \E status \in HttpStatuses, field \in RetryAfterFields : Respond(status, field)
    \/ Resume
    \/ TickRequest

SpecRequest == InitAT /\ [][NextRequest]_vars

\* C39: a logical request makes at most MAX_RETRIES retries, that is at most
\* MAX_RETRIES + 1 fetches; it retries only after a 429, and when the body
\* indicates retry_after seconds the next fetch starts no earlier than that
\* long after the 429; a request that settles on a 429 has made all its
\* fetches and is raised as a DiscordApiError.
C39_RetriesAfter429AreBounded ==
    /\ [](req.retryCount <= MAX_RETRIES /\ req.attempts <= MAX_RETRIES + 1)
    /\ [](\A e \in reqHist :
             /\ e.retries <= MAX_RETRIES /\ e.attempts = e.retries + 1
             /\ e.status = 429 =>
                    e.outcome = "DiscordApiError" /\ e.retries = MAX_RETRIES)
    /\ [][(req.pc = "fetch" /\ req'.pc = "wait") =>
             req'.status = 429 /\ req.retryCount < MAX_RETRIES]_vars
    /\ [][(req.pc = "wait" /\ req'.pc = "fetch") =>
             /\ req'.retryCount = req.retryCount + 1
             /\ req.indicated.kind = "number" =>
                    clock >= req.since + req.indicated.value * 1000]_vars

\* One request was raised on its third 429, and one succeeded on the fetch
\* after its second retry
C39_Witness ==
    /\ \E e \in reqHist :
          e.status = 429 /\ e.attempts = MAX_RETRIES + 1 /\ e.outcome = "DiscordApiError"
    /\ \E e \in reqHist : e.outcome = "ok" /\ e.retries = MAX_RETRIES

(***************************************************************************)
(* timingSafeEqual                                                         *)
(***************************************************************************)
\* Strings are sequences of UTF-16 code units: NUL, "a", U+00E9, a lone high
\* surrogate and U+FFFD
CodeUnits == {0, 97, 233, 55296, 65533}

Strings == UNION {[1..n -> CodeUnits] : n \in 0..MaxStringLen}

\* rate-limit.ts lines 282-283: String.prototype.padEnd(maxLen, "\0")
PadEnd(str, maxLen) == str \o [i \in 1..(maxLen - Len(str)) |-> 0]

\* rate-limit.ts lines 286-287: TextEncoder.encode, UTF-8; a lone surrogate
\* is encoded as U+FFFD
Utf8(unit) ==
    LET u == IF unit >= 55296 /\ unit <= 57343 THEN 65533 ELSE unit
    IN  IF u < 128 THEN <<u>>
        ELSE IF u < 2048 THEN <<192 + (u \div 64), 128 + (u % 64)>>
        ELSE <<224 + (u \div 4096), 128 + ((u \div 64) % 64), 128 + (u % 64)>>

RECURSIVE Encode(_)
Encode(str) == IF str = <<>> THEN <<>> ELSE Utf8(Head(str)) \o Encode(Tail(str))

\* bit i of a byte, and the bitwise operators of line 292 on bytes
Bit(x, i) == (x \div (2 ^ i)) % 2
BitXor(x, y) ==
    LET d(i) == ((Bit(x, i) + Bit(y, i)) % 2) * (2 ^ i)
    IN  d(0) + d(1) + d(2) + d(3) + d(4) + d(5) + d(6) + d(7)
BitOr(x, y) ==
    LET d(i) == (IF Bit(x, i) + Bit(y, i) > 0 THEN 1 ELSE 0) * (2 ^ i)
    IN  d(0) + d(1) + d(2) + d(3) + d(4) + d(5) + d(6) + d(7)

\* bBytes[i]: an index past the end reads undefined, which ^ takes as 0
ByteAt(bytes, i) == IF i <= Len(bytes) THEN bytes[i] ELSE 0

\* rate-limit.ts lines 290-293: the loop runs over aBytes
RECURSIVE Diff(_, _, _)
Diff(aBytes, bBytes, i) ==
    IF i > Len(aBytes) THEN 0
    ELSE BitOr(BitXor(aBytes[i], ByteAt(bBytes, i)), Diff(aBytes, bBytes, i + 1))

\* rate-limit.ts lines 279-296
TimingSafeEqual(a, b) ==
    LET maxLen == Max2(Len(a), Len(b))
        aBytes == Encode(PadEnd(a, maxLen))
        bBytes == Encode(PadEnd(b, maxLen))
    IN  Diff(aBytes, bBytes, 1) = 0

InitCompare ==
    /\ clock = 0
    /\ RlQuiet
    /\ AtQuiet
    /\ req = IdleRequest /\ reqHist = {}
    /\ cmp \in [a : Strings, b : Strings, done : {FALSE}, result : {FALSE}]

Compare ==
    /\ ~cmp.done
    /\ cmp' = [cmp EXCEPT !.done = TRUE, !.result = TimingSafeEqual(cmp.a, cmp.b)]
    /\ UNCHANGED <<rlVars, atVars, req, reqHist>>

NextCompare == Compare

SpecCompare == InitCompare /\ [][NextCompare]_vars

\* Helper: equal strings compare as equal
EqualStringsCompareEqual == (cmp.done /\ cmp.a = cmp.b) => cmp.result

\* C40: timingSafeEqual(a, b) returns true exactly when a and b are the same
\* string.
C40_TrueExactlyWhenEqual == cmp.done => (cmp.result <=> cmp.a = cmp.b)

====
